---- MODULE Spec2Model ----
(***************************************************************************)
(* Model of the YAS Remote relay server v3.3 (connection registry, auth,   *)
(* sessions, relay).  One action per message handler / socket event.       *)
(* Time is counted in ticks of seven and a half minutes; every duration   *)
(* of the configuration is expressed in that unit.                         *)
(***************************************************************************)
EXTENDS Naturals, Integers, Sequences, FiniteSets, TLC

\* ------------------------------------------------------------------ bounds
MaxTransports == 2      \* transports that connect in the registry runs
MaxSessionIds == 1      \* session tokens generated in the registry/timed runs
MaxPairIds    == 2      \* session tokens generated in the two-password runs
MaxEvictIds   == 6      \* session tokens generated in the session-cap runs
MaxDevices    == 1      \* trusted-device ids that are ever generated
MaxClock      == 5      \* last tick of the timed runs
MaxCapClock   == 1      \* last tick of the session-cap runs
MaxTransfers  == 1      \* transfer ids that are ever generated
MaxIndex      == 1      \* largest chunkIndex of a file_chunk
MaxReceived   == 4      \* largest receivedSize a chunk may bring a transfer to
MaxRecent     == 2      \* uploads of one password that are completed

\* ------------------------------------------------- configuration constants
\* Durations in ticks of 7.5 minutes.
maxFailedAttempts   == 5
lockoutDuration     == 2
sessionTimeout      == 4
trustedDeviceExpiry == 5760
maxSessionsPerUser  == 5

\* ------------------------------------------------------------ value spaces
Transports == 1..(MaxTransports + 1)   \* ws objects
NoWs       == 0                 \* undefined / null transport reference
NoSession  == 0                 \* undefined session id
NoTransfer == 0                 \* undefined transfer id
Missing    == ""                \* a message field that is absent (falsy)
DevNames   == <<"dev_1", "dev_2", "dev_3", "dev_4">>
DevIds     == {DevNames[i] : i \in 1..Len(DevNames)}
Passwords  == {"alpha", "beta"}            \* well-formed passwords
ShortPw    == "abc"                        \* shorter than four characters
NumericPw  == "123456"                     \* a password made of digits
Strings    == Passwords \cup {ShortPw, NumericPw} \cup DevIds
Fields     == Strings \cup {Missing}       \* what a password field may hold

\* --------------------------------------------------- JavaScript Map as data
\* A Map is a set of <<key, value>> entries.
MapHas(m, k)    == \E e \in m : e[1] = k
MapGet(m, k)    == (CHOOSE e \in m : e[1] = k)[2]
MapDelete(m, k) == {e \in m : e[1] # k}
MapSet(m, k, v) == MapDelete(m, k) \cup {<<k, v>>}

RECURSIVE SetToSeq(_)
SetToSeq(S) == IF S = {} THEN <<>>
               ELSE LET x == CHOOSE y \in S : \A z \in S : y <= z
                    IN <<x>> \o SetToSeq(S \ {x})

RECURSIVE SeqRemove(_, _)
SeqRemove(s, x) == IF s = <<>> THEN <<>>
                   ELSE IF Head(s) = x THEN SeqRemove(Tail(s), x)
                   ELSE <<Head(s)>> \o SeqRemove(Tail(s), x)

\* ------------------------------------------------------------------- state
VARIABLES
    wsState,          \* transport -> "idle" | "open" | "closing" | "closed"
    isComputer,       \* ws.isComputer
    computerPassword, \* ws.computerPassword
    clientPassword,   \* ws.clientPassword
    wsSessionId,      \* ws.sessionId
    computers,        \* Map password -> [ws, connectedClients]
    clients,          \* Map ws -> [sessionId, password]
    sessions,         \* Map sessionId -> [password, createdAt, lastActivity, ws]
    userSessions,     \* password -> insertion-ordered ids (empty = no entry)
    nextSid,          \* next fresh session token
    failedAttempts,   \* Map key -> [count, lastAttempt]
    trustedDevices,   \* Map deviceId -> [passwordHash, createdAt]
    nextDev,          \* next fresh device id
    now,              \* Date.now() in ticks
    activeTransfers,  \* Map transferId -> FileTransfer
    recentFiles,      \* Map password -> descriptors, newest first
    nextTransfer,     \* next fresh transfer id
    purgeTimers,      \* transfer ids with a pending purge timeout
    isAlive,          \* ws.isAlive
    sincePong,        \* heartbeat pings sent to ws since its last pong
    securityLog,      \* the event fields of the entries of securityLog
    received,         \* history: Map <<transferId, chunkIndex>> -> the data of
                      \* the last file_chunk stored for a transfer of the map
    out,              \* frames sent by the last handler, in send order
    last              \* the last handler that ran and its outcome

wsVars  == <<isComputer, computerPassword, clientPassword, wsSessionId>>
regVars == <<computers, clients, sessions, userSessions>>
fileVars == <<activeTransfers, recentFiles, nextTransfer, purgeTimers, received>>
hbVars  == <<isAlive, sincePong>>
vars    == <<wsState, isComputer, computerPassword, clientPassword, wsSessionId,
             computers, clients, sessions, userSessions, nextSid,
             failedAttempts, trustedDevices, nextDev, now,
             activeTransfers, recentFiles, nextTransfer, purgeTimers,
             isAlive, sincePong, securityLog, received, out, last>>

\* ------------------------------------------------------------------ frames
Frame(to, type, msg) ==
    [to |-> to, type |-> type, msg |-> msg, sid |-> NoSession, users |-> {}, n |-> 0,
     tid |-> NoTransfer, data |-> <<>>]
SidFrame(to, type, sid, msg) ==
    [to |-> to, type |-> type, msg |-> msg, sid |-> sid, users |-> {}, n |-> 0,
     tid |-> NoTransfer, data |-> <<>>]
UsersFrame(to, users) ==
    [to |-> to, type |-> "users_changed", msg |-> "", sid |-> NoSession,
     users |-> users, n |-> Cardinality(users), tid |-> NoTransfer, data |-> <<>>]
LockFrame(to, minutes) ==
    [to |-> to, type |-> "error", msg |-> "Too many attempts", sid |-> NoSession,
     users |-> {}, n |-> minutes, tid |-> NoTransfer, data |-> <<>>]
\* A frame about transfer `tid`: msg is its command, error or file name, data
\* its fileData, n its progress or fileSize.
FileFrame(to, type, tid, msg, data, n) ==
    [to |-> to, type |-> type, msg |-> msg, sid |-> NoSession, users |-> {}, n |-> n,
     tid |-> tid, data |-> data]

\* A transport delivers 'message' events until its 'close' event.
Receiving(ws) == wsState[ws] \in {"open", "closing"}

\* -------------------------------------------------------------------- auth
hashPassword(password) == <<"sha256", password>>

\* Variant: every password that is present is accepted.
validatePasswordLax(password) == password # Missing

validatePassword(password) == password # Missing /\ Len(password) >= 4

\* logSecurityEvent(event, details, ip) puts an entry at the head of the log.
\* The log is kept as the set of the event fields of its entries; the relay
\* passes the password as `event` (lines 499, 532, 557, 608, 781, 794, 1139).
logSecurityEvent(log, event) == log \cup {event}

\* Variant: a check made while the password is locked stamps the entry with
\* the time of the check.
checkLockoutRestamp(fa, password, t) ==
    IF ~MapHas(fa, password)
    THEN [locked |-> FALSE, remainingMinutes |-> 0, fa |-> fa]
    ELSE LET attempts == MapGet(fa, password)
             timeSinceLast == t - attempts.lastAttempt
         IN IF attempts.count >= maxFailedAttempts
            THEN IF timeSinceLast < lockoutDuration
                 THEN [locked |-> TRUE,
                       remainingMinutes |-> (15 * (lockoutDuration - timeSinceLast) + 1) \div 2,
                       fa |-> MapSet(fa, password, [attempts EXCEPT !.lastAttempt = t])]
                 ELSE [locked |-> FALSE, remainingMinutes |-> 0,
                       fa |-> MapDelete(fa, password)]
            ELSE [locked |-> FALSE, remainingMinutes |-> 0, fa |-> fa]

\* Variant: the threshold is compared with > instead of >=.
checkLockoutStrict(fa, password, t) ==
    IF ~MapHas(fa, password)
    THEN [locked |-> FALSE, remainingMinutes |-> 0, fa |-> fa]
    ELSE LET attempts == MapGet(fa, password)
             timeSinceLast == t - attempts.lastAttempt
         IN IF attempts.count > maxFailedAttempts
            THEN IF timeSinceLast < lockoutDuration
                 THEN [locked |-> TRUE,
                       remainingMinutes |-> (15 * (lockoutDuration - timeSinceLast) + 1) \div 2,
                       fa |-> fa]
                 ELSE [locked |-> FALSE, remainingMinutes |-> 0,
                       fa |-> MapDelete(fa, password)]
            ELSE [locked |-> FALSE, remainingMinutes |-> 0, fa |-> fa]

\* Variant: the entry is deleted whenever the password is not locked.
checkLockoutClearing(fa, password, t) ==
    IF ~MapHas(fa, password)
    THEN [locked |-> FALSE, remainingMinutes |-> 0, fa |-> fa]
    ELSE LET attempts == MapGet(fa, password)
             timeSinceLast == t - attempts.lastAttempt
         IN IF attempts.count >= maxFailedAttempts /\ timeSinceLast < lockoutDuration
            THEN [locked |-> TRUE,
                  remainingMinutes |-> (15 * (lockoutDuration - timeSinceLast) + 1) \div 2,
                  fa |-> fa]
            ELSE [locked |-> FALSE, remainingMinutes |-> 0,
                  fa |-> MapDelete(fa, password)]

checkLockout(fa, password, t) ==
    IF ~MapHas(fa, password)
    THEN [locked |-> FALSE, remainingMinutes |-> 0, fa |-> fa]
    ELSE LET attempts == MapGet(fa, password)
             timeSinceLast == t - attempts.lastAttempt
         IN IF attempts.count >= maxFailedAttempts
            THEN IF timeSinceLast < lockoutDuration
                 THEN [locked |-> TRUE,
                       remainingMinutes |-> (15 * (lockoutDuration - timeSinceLast) + 1) \div 2,
                       fa |-> fa]
                 ELSE [locked |-> FALSE, remainingMinutes |-> 0,
                       fa |-> MapDelete(fa, password)]
            ELSE [locked |-> FALSE, remainingMinutes |-> 0, fa |-> fa]

\* Variant: a failure starts the count again when the last one is at least
\* lockoutDuration old.
recordFailedAttemptWindowed(fa, key, t) ==
    LET attempts == IF MapHas(fa, key) /\ t - MapGet(fa, key).lastAttempt < lockoutDuration
                    THEN MapGet(fa, key)
                    ELSE [count |-> 0, lastAttempt |-> 0]
    IN MapSet(fa, key, [count |-> attempts.count + 1, lastAttempt |-> t])

recordFailedAttempt(fa, key, t) ==
    LET attempts == IF MapHas(fa, key) THEN MapGet(fa, key)
                    ELSE [count |-> 0, lastAttempt |-> 0]
    IN MapSet(fa, key, [count |-> attempts.count + 1, lastAttempt |-> t])

registerTrustedDevice(td, deviceId, password, t) ==
    MapSet(td, deviceId, [passwordHash |-> hashPassword(password), createdAt |-> t])

validateTrustedDevice(td, deviceId, password, t) ==
    IF ~MapHas(td, deviceId)
    THEN [valid |-> FALSE, reason |-> "Device not found", td |-> td]
    ELSE LET device == MapGet(td, deviceId)
         IN IF t - device.createdAt > trustedDeviceExpiry
            THEN [valid |-> FALSE, reason |-> "Device trust expired",
                  td |-> MapDelete(td, deviceId)]
            ELSE IF device.passwordHash # hashPassword(password)
            THEN [valid |-> FALSE, reason |-> "Password changed", td |-> td]
            ELSE [valid |-> TRUE, reason |-> "", td |-> td]

\* ---------------------------------------------------------------- sessions
\* The handlers work on a bundle B of the shared tables and the frames sent
\* so far, and of the security log:
\* [computers, clients, sessions, userSessions, out, log].
Cur == [computers |-> computers, clients |-> clients, sessions |-> sessions,
        userSessions |-> userSessions, out |-> <<>>, log |-> securityLog]

Commit(B) ==
    /\ computers' = B.computers
    /\ clients' = B.clients
    /\ sessions' = B.sessions
    /\ userSessions' = B.userSessions
    /\ out' = B.out
    /\ securityLog' = B.log

isExpired(session, t) == t - session.lastActivity > sessionTimeout

destroySession(B, sessionId, reason) ==
    IF ~MapHas(B.sessions, sessionId) THEN B
    ELSE LET session == MapGet(B.sessions, sessionId)
             notice == IF session.ws # NoWs /\ wsState[session.ws] = "open"
                       THEN <<Frame(session.ws, "session_expired", reason)>>
                       ELSE <<>>
         IN [B EXCEPT !.out = @ \o notice,
                      !.sessions = MapDelete(@, sessionId),
                      !.userSessions[session.password] = SeqRemove(@, sessionId)]

\* Variant: the newest session of the password is evicted instead of the
\* oldest.
createSessionEvictNewest(B, password, hasInfo, ws, sessionId, t) ==
    LET existingSessions == B.userSessions[password]
        B1 == IF Len(existingSessions) >= maxSessionsPerUser
              THEN destroySession(B, existingSessions[Len(existingSessions)],
                                  "max_sessions_exceeded")
              ELSE B
        session == [password |-> password, createdAt |-> t, lastActivity |-> t, ws |-> ws]
        B2 == [B1 EXCEPT !.sessions = MapSet(@, sessionId, session),
                         !.userSessions[password] = Append(@, sessionId)]
    IN [B |-> B2, id |-> sessionId, threw |-> ~hasInfo,
        evicted |-> IF Len(existingSessions) >= maxSessionsPerUser
                    THEN Head(existingSessions) ELSE NoSession]

\* createSession(password, deviceInfo, ip, ws): hasInfo says whether the
\* deviceInfo argument is an object; reading deviceInfo.name of undefined
\* throws after the session has been stored.
createSession(B, password, hasInfo, ws, sessionId, t) ==
    LET existingSessions == B.userSessions[password]
        B1 == IF Len(existingSessions) >= maxSessionsPerUser
              THEN destroySession(B, Head(existingSessions), "max_sessions_exceeded")
              ELSE B
        session == [password |-> password, createdAt |-> t, lastActivity |-> t, ws |-> ws]
        B2 == [B1 EXCEPT !.sessions = MapSet(@, sessionId, session),
                         !.userSessions[password] = Append(@, sessionId)]
    IN [B |-> B2, id |-> sessionId, threw |-> ~hasInfo,
        evicted |-> IF Len(existingSessions) >= maxSessionsPerUser
                    THEN Head(existingSessions) ELSE NoSession]

touchSession(B, sessionId, t) ==
    IF MapHas(B.sessions, sessionId)
    THEN [B EXCEPT !.sessions =
             MapSet(@, sessionId, [MapGet(@, sessionId) EXCEPT !.lastActivity = t])]
    ELSE B

\* getSession: the session, or none after destroying an expired one.
getSession(B, sessionId, t) ==
    IF ~MapHas(B.sessions, sessionId) THEN [B |-> B, found |-> FALSE]
    ELSE IF isExpired(MapGet(B.sessions, sessionId), t)
    THEN [B |-> destroySession(B, sessionId, "expired"), found |-> FALSE]
    ELSE [B |-> B, found |-> TRUE]

\* validateSession returns an object in both cases: {valid:false, reason} or
\* {valid:true, session}; 'valid' is that object's field.
validateSession(B, sessionId, t) ==
    LET g == getSession(B, sessionId, t)
    IN IF ~g.found THEN [B |-> g.B, valid |-> FALSE]
       ELSE [B |-> touchSession(g.B, sessionId, t), valid |-> TRUE]

\* Truthiness of the value validateSession returns, as tested by `!result`.
Truthy(result) == TRUE

\* cleanupExpiredSessions(): the sessions are visited in insertion order,
\* which is the order of their ids; `ids` are the ids still to visit.
RECURSIVE cleanupFrom(_, _, _)
cleanupFrom(B, ids, t) ==
    IF ids = {} THEN B
    ELSE LET id == CHOOSE i \in ids : \A j \in ids : i <= j
             B1 == IF MapHas(B.sessions, id) /\ isExpired(MapGet(B.sessions, id), t)
                   THEN destroySession(B, id, "expired")
                   ELSE B
         IN cleanupFrom(B1, ids \ {id}, t)

cleanupExpiredSessions(B, t) == cleanupFrom(B, {e[1] : e \in B.sessions}, t)

\* ---------------------------------------------------------------- registry
notifyComputerOfUserChange(B, password) ==
    IF ~MapHas(B.computers, password) THEN B
    ELSE LET computer == MapGet(B.computers, password)
             known == {c \in computer.connectedClients : MapHas(B.clients, c)}
             users == {MapGet(B.clients, c).sessionId : c \in known}
             targets == SetToSeq(computer.connectedClients)
         IN [B EXCEPT !.out = @ \o <<UsersFrame(computer.ws, users)>>
                                \o [i \in 1..Len(targets) |-> UsersFrame(targets[i], users)]]

handleDisconnect(B, ws) ==
    IF isComputer[ws] /\ computerPassword[ws] # Missing
    THEN IF MapHas(B.computers, computerPassword[ws])
         THEN LET computer == MapGet(B.computers, computerPassword[ws])
                  targets == SetToSeq(computer.connectedClients)
              IN [B EXCEPT !.out = @ \o [i \in 1..Len(targets) |->
                                            Frame(targets[i], "computer_disconnected", "")],
                           !.computers = MapDelete(@, computerPassword[ws]),
                           !.log = logSecurityEvent(@, computerPassword[ws])]
         ELSE [B EXCEPT !.log = logSecurityEvent(@, computerPassword[ws])]
    ELSE IF MapHas(B.clients, ws)
    THEN LET clientInfo == MapGet(B.clients, ws)
             B1 == destroySession(B, clientInfo.sessionId, "manual")
             B2 == IF MapHas(B1.computers, clientInfo.password)
                   THEN LET computer == MapGet(B1.computers, clientInfo.password)
                        IN notifyComputerOfUserChange(
                             [B1 EXCEPT !.computers = MapSet(@, clientInfo.password,
                                 [computer EXCEPT !.connectedClients = @ \ {ws}])],
                             clientInfo.password)
                   ELSE B1
         IN [B2 EXCEPT !.clients = MapDelete(@, ws)]
    ELSE B

\* ---------------------------------------------------------- initial state
Init ==
    /\ wsState = [w \in Transports |-> "idle"]
    /\ isComputer = [w \in Transports |-> FALSE]
    /\ computerPassword = [w \in Transports |-> Missing]
    /\ clientPassword = [w \in Transports |-> Missing]
    /\ wsSessionId = [w \in Transports |-> NoSession]
    /\ computers = {}
    /\ clients = {}
    /\ sessions = {}
    /\ userSessions = [p \in Strings |-> <<>>]
    /\ nextSid = 1
    /\ failedAttempts = {}
    /\ trustedDevices = {}
    /\ nextDev = 1
    /\ now = 0
    /\ activeTransfers = {}
    /\ recentFiles = {}
    /\ nextTransfer = 1
    /\ purgeTimers = {}
    /\ isAlive = [w \in Transports |-> FALSE]
    /\ sincePong = [w \in Transports |-> 0]
    /\ securityLog = {}
    /\ received = {}
    /\ out = <<>>
    /\ last = [op |-> "init", ws |-> NoWs, pw |-> Missing, res |-> "",
               evicted |-> NoSession, req |-> NoSession, arg |-> <<>>]

\* `last` records the handler that ran, its outcome, the session that
\* createSession evicted, if any, the sessionId / requesterId / transferId
\* field of the message, if it has one, and its other fields; for a refused
\* connect_to_computer, the age of the failure that was on record.
DidEvict(op, ws, pw, res, sid) ==
    last' = [op |-> op, ws |-> ws, pw |-> pw, res |-> res, evicted |-> sid,
             req |-> NoSession, arg |-> <<>>]
Did(op, ws, pw, res) == DidEvict(op, ws, pw, res, NoSession)
DidArg(op, ws, pw, res, req, arg) ==
    last' = [op |-> op, ws |-> ws, pw |-> pw, res |-> res, evicted |-> NoSession,
             req |-> req, arg |-> arg]
DidReq(op, ws, pw, res, req) == DidArg(op, ws, pw, res, req, <<>>)

\* ------------------------------------------------------- connection events
\* wss.on('connection')
Connection(ws) ==
    /\ wsState[ws] = "idle"
    /\ wsState' = [wsState EXCEPT ![ws] = "open"]
    /\ out' = <<>>
    /\ isAlive' = [isAlive EXCEPT ![ws] = TRUE]
    /\ sincePong' = [sincePong EXCEPT ![ws] = 0]
    /\ Did("connection", ws, Missing, "")
    /\ UNCHANGED <<wsVars, regVars, nextSid, failedAttempts, trustedDevices, nextDev, now,
                   fileVars, securityLog>>

\* Date.now() advances.
Tick ==
    /\ now' = now + 1
    /\ out' = <<>>
    /\ Did("tick", NoWs, Missing, "")
    /\ UNCHANGED <<wsState, wsVars, regVars, nextSid, failedAttempts, trustedDevices, nextDev,
                   fileVars, hbVars, securityLog>>

\* ws.on('close') -> handleDisconnect(ws)
Close(ws) ==
    /\ Receiving(ws)
    /\ wsState' = [wsState EXCEPT ![ws] = "closed"]
    /\ Commit(handleDisconnect(Cur, ws))
    /\ Did("close", ws, Missing, "")
    /\ UNCHANGED <<wsVars, nextSid, failedAttempts, trustedDevices, nextDev, now, fileVars, hbVars>>

\* --------------------------------------------------------------- heartbeat
\* Variant: the heartbeat terminates no transport.
TerminatesNever(ws) == FALSE

\* if (!ws.isAlive) return ws.terminate()
Terminates(ws) == ~isAlive[ws]

\* The heartbeat interval: every transport of wss.clients is terminated or
\* has its flag cleared and is pinged.  terminate() destroys the socket; the
\* transport's 'close' event follows.
Heartbeat ==
    /\ wsState' = [w \in Transports |->
                     IF Receiving(w) /\ Terminates(w) THEN "closing" ELSE wsState[w]]
    /\ isAlive' = [w \in Transports |->
                     IF Receiving(w) /\ ~Terminates(w) THEN FALSE ELSE isAlive[w]]
    /\ sincePong' = [w \in Transports |->
                       IF Receiving(w) /\ ~Terminates(w)
                       THEN sincePong[w] + 1 ELSE sincePong[w]]
    /\ out' = <<>>
    /\ Did("heartbeat", NoWs, Missing, "")
    /\ UNCHANGED <<wsVars, regVars, nextSid, failedAttempts, trustedDevices, nextDev,
                   now, fileVars, securityLog>>

\* ws.on('pong')
Pong(ws) ==
    /\ Receiving(ws)
    /\ isAlive' = [isAlive EXCEPT ![ws] = TRUE]
    /\ sincePong' = [sincePong EXCEPT ![ws] = 0]
    /\ out' = <<>>
    /\ Did("pong", ws, Missing, "")
    /\ UNCHANGED <<wsState, wsVars, regVars, nextSid, failedAttempts, trustedDevices,
                   nextDev, now, fileVars, securityLog>>

\* Variant: a ping counts as activity of the sender's session.
handlePingTouching(ws) ==
    /\ Receiving(ws)
    /\ LET B1 == IF MapHas(clients, ws)
                 THEN touchSession(Cur, MapGet(clients, ws).sessionId, now)
                 ELSE Cur
       IN Commit([B1 EXCEPT !.out = <<Frame(ws, "pong", "")>>])
    /\ Did("ping", ws, Missing, "")
    /\ UNCHANGED <<wsState, wsVars, nextSid, failedAttempts, trustedDevices,
                   nextDev, now, fileVars, hbVars>>

\* case 'ping'
handlePing(ws) ==
    /\ Receiving(ws)
    /\ out' = <<Frame(ws, "pong", "")>>
    /\ Did("ping", ws, Missing, "")
    /\ UNCHANGED <<wsState, wsVars, regVars, nextSid, failedAttempts, trustedDevices,
                   nextDev, now, fileVars, hbVars, securityLog>>

\* ------------------------------------------------------ rejected messages
\* ws.on('message') with a text that JSON.parse rejects, or that parses to
\* null: the exception is caught and logged to the console.
InvalidMessage(ws) ==
    /\ Receiving(ws)
    /\ out' = <<>>
    /\ Did("invalid_message", ws, Missing, "logged")
    /\ UNCHANGED <<wsState, wsVars, regVars, nextSid, failedAttempts, trustedDevices,
                   nextDev, now, fileVars, hbVars, securityLog>>

\* default: of handleMessage, a type that no case names.
handleUnknownType(ws) ==
    /\ Receiving(ws)
    /\ out' = <<>>
    /\ Did("unknown_type", ws, Missing, "logged")
    /\ UNCHANGED <<wsState, wsVars, regVars, nextSid, failedAttempts, trustedDevices,
                   nextDev, now, fileVars, hbVars, securityLog>>

\* ------------------------------------------------------------ session sweep
\* setInterval(cleanupExpiredSessions, cleanupInterval)
Sweep ==
    /\ Commit(cleanupExpiredSessions(Cur, now))
    /\ Did("cleanup", NoWs, Missing, "")
    /\ UNCHANGED <<wsState, wsVars, nextSid, failedAttempts, trustedDevices, nextDev,
                   now, fileVars, hbVars>>

\* ------------------------------------------------------- register_computer
\* Variant: the record is added to the collection without replacing the
\* record stored under the same password.
InstallHostAppend(m, password, ws) ==
    m \cup {<<password, [ws |-> ws, connectedClients |-> {}]>>}

InstallHost(m, password, ws) ==
    MapSet(m, password, [ws |-> ws, connectedClients |-> {}])

handleRegisterComputer(ws, password) ==
    /\ Receiving(ws)
    /\ IF ~validatePassword(password)
       THEN /\ out' = <<Frame(ws, "error", "Invalid password format")>>
            /\ Did("register_computer", ws, password, "invalid")
            /\ UNCHANGED <<wsVars, regVars, securityLog>>
       ELSE /\ computers' = InstallHost(computers, password, ws)
            /\ computerPassword' = [computerPassword EXCEPT ![ws] = password]
            /\ isComputer' = [isComputer EXCEPT ![ws] = TRUE]
            /\ securityLog' = logSecurityEvent(securityLog, password)
            /\ out' = <<Frame(ws, "registered", "success")>>
            /\ Did("register_computer", ws, password, "ok")
            /\ UNCHANGED <<clientPassword, wsSessionId, clients, sessions, userSessions>>
    /\ UNCHANGED <<wsState, nextSid, failedAttempts, trustedDevices, nextDev, now, fileVars, hbVars>>

\* ----------------------------------------------------- connect_to_computer
\* Attach ws as a client of `password` under session `sid` (lines 546-568).
AttachClient(B, ws, password, sid) ==
    LET B1 == [B EXCEPT !.clients = MapSet(@, ws, [sessionId |-> sid, password |-> password])]
        computer == MapGet(B1.computers, password)
        B2 == [B1 EXCEPT !.computers = MapSet(@, password,
                   [computer EXCEPT !.connectedClients = @ \cup {ws}])]
        B3 == notifyComputerOfUserChange(B2, password)
    IN [B3 EXCEPT !.out = @ \o <<SidFrame(ws, "connected", sid, "")>>]

\* How old the last failure recorded for key is at time t, as what `last`
\* keeps of a refused connect; nothing without an entry.
AttemptAge(fa, key, t) ==
    IF MapHas(fa, key) THEN <<t - MapGet(fa, key).lastAttempt>> ELSE <<>>

handleConnectToComputer(ws, password, trustDevice, hasInfo) ==
    /\ Receiving(ws)
    /\ LET lockout == checkLockout(failedAttempts, password, now)
       IN IF lockout.locked
          THEN /\ out' = <<LockFrame(ws, lockout.remainingMinutes)>>
               /\ failedAttempts' = lockout.fa
               /\ Did("connect_to_computer", ws, password, "locked")
               /\ UNCHANGED <<wsVars, regVars, nextSid, trustedDevices, nextDev, securityLog>>
          ELSE IF ~validatePassword(password)
          THEN /\ failedAttempts' = recordFailedAttempt(lockout.fa, password, now)
               /\ out' = <<Frame(ws, "error", "Invalid password")>>
               /\ securityLog' = logSecurityEvent(securityLog, password)
               /\ DidArg("connect_to_computer", ws, password, "invalid", NoSession,
                         AttemptAge(lockout.fa, password, now))
               /\ UNCHANGED <<wsVars, regVars, nextSid, trustedDevices, nextDev>>
          ELSE IF ~MapHas(computers, password)
          THEN /\ failedAttempts' = recordFailedAttempt(lockout.fa, password, now)
               /\ out' = <<Frame(ws, "error", "Computer not found or offline")>>
               /\ securityLog' = logSecurityEvent(securityLog, password)
               /\ DidArg("connect_to_computer", ws, password, "not_found", NoSession,
                         AttemptAge(lockout.fa, password, now))
               /\ UNCHANGED <<wsVars, regVars, nextSid, trustedDevices, nextDev>>
          ELSE /\ failedAttempts' = lockout.fa
               /\ nextSid' = nextSid + 1
               /\ LET created == createSession(Cur, password, hasInfo, NoWs, nextSid, now)
                  IN IF created.threw
                     THEN /\ Commit(created.B)
                          /\ DidEvict("connect_to_computer", ws, password, "threw", created.evicted)
                          /\ UNCHANGED <<wsVars, trustedDevices, nextDev>>
                     ELSE /\ Commit([AttachClient(created.B, ws, password, created.id)
                                        EXCEPT !.log = logSecurityEvent(
                                            IF trustDevice
                                            THEN logSecurityEvent(@, "DEVICE_TRUSTED")
                                            ELSE @, password)])
                          /\ clientPassword' = [clientPassword EXCEPT ![ws] = password]
                          /\ wsSessionId' = [wsSessionId EXCEPT ![ws] = created.id]
                          /\ IF trustDevice
                             THEN /\ trustedDevices' = registerTrustedDevice(
                                        trustedDevices, DevNames[nextDev], password, now)
                                  /\ nextDev' = nextDev + 1
                             ELSE UNCHANGED <<trustedDevices, nextDev>>
                          /\ DidEvict("connect_to_computer", ws, password, "ok", created.evicted)
                          /\ UNCHANGED <<isComputer, computerPassword>>
    /\ UNCHANGED <<wsState, now, fileVars, hbVars>>

\* -------------------------------------------------------------- auto_login
\* The handler passes (password, deviceId) to validateTrustedDevice(deviceId,
\* password): the device is looked up under the message's password field and
\* the message's deviceId field is hashed.
handleAutoLogin(ws, deviceId, password) ==
    /\ Receiving(ws)
    /\ LET v == validateTrustedDevice(trustedDevices, password, deviceId, now)
           validation == [valid |-> v.valid, reason |-> v.reason, td |-> v.td,
                          log |-> IF v.valid
                                  THEN logSecurityEvent(securityLog, "DEVICE_AUTO_LOGIN")
                                  ELSE IF v.reason = "Device trust expired"
                                  THEN logSecurityEvent(securityLog, "DEVICE_EXPIRED")
                                  ELSE securityLog]
       IN /\ trustedDevices' = validation.td
          /\ IF ~validation.valid
             THEN /\ out' = <<Frame(ws, "auto_login_failed", validation.reason)>>
                  /\ securityLog' = validation.log
                  /\ DidArg("auto_login", ws, password, "invalid", NoSession, <<deviceId>>)
                  /\ UNCHANGED <<wsVars, regVars, nextSid>>
             ELSE IF ~MapHas(computers, password)
             THEN /\ out' = <<Frame(ws, "auto_login_failed", "Computer not found or offline")>>
                  /\ securityLog' = validation.log
                  /\ DidArg("auto_login", ws, password, "not_found", NoSession, <<deviceId>>)
                  /\ UNCHANGED <<wsVars, regVars, nextSid>>
             ELSE /\ nextSid' = nextSid + 1
                  /\ LET created == createSession(Cur, password, TRUE, NoWs, nextSid, now)
                     IN /\ Commit([AttachClient(created.B, ws, password, created.id)
                                      EXCEPT !.log = logSecurityEvent(validation.log, password)])
                        /\ last' = [op |-> "auto_login", ws |-> ws, pw |-> password,
                                    res |-> "ok", evicted |-> created.evicted,
                                    req |-> NoSession, arg |-> <<deviceId>>]
                  /\ clientPassword' = [clientPassword EXCEPT ![ws] = password]
                  /\ wsSessionId' = [wsSessionId EXCEPT ![ws] = nextSid]
                  /\ UNCHANGED <<isComputer, computerPassword>>
    /\ UNCHANGED <<wsState, failedAttempts, nextDev, now, fileVars, hbVars>>

\* ------------------------------------------------------------------- relay
handleRelay(ws) ==
    /\ Receiving(ws)
    /\ IF ~MapHas(clients, ws)
       THEN /\ out' = <<>>
            /\ Did("relay", ws, Missing, "no_client")
            /\ UNCHANGED <<regVars, securityLog>>
       ELSE LET clientInfo == MapGet(clients, ws)
                v == validateSession(Cur, clientInfo.sessionId, now)
            IN IF ~Truthy(v)
               THEN /\ Commit([v.B EXCEPT !.out = @ \o <<Frame(ws, "session_expired", "Session expired")>>])
                    /\ Did("relay", ws, clientInfo.password, "expired")
               ELSE LET B1 == touchSession(v.B, clientInfo.sessionId, now)
                        fwd == IF MapHas(B1.computers, clientInfo.password)
                                  /\ wsState[MapGet(B1.computers, clientInfo.password).ws] = "open"
                               THEN <<SidFrame(MapGet(B1.computers, clientInfo.password).ws,
                                               "command", clientInfo.sessionId, "")>>
                               ELSE <<>>
                    IN /\ Commit([B1 EXCEPT !.out = @ \o fwd])
                       /\ Did("relay", ws, clientInfo.password,
                              IF fwd = <<>> THEN "dropped" ELSE "forwarded")
    /\ UNCHANGED <<wsState, wsVars, nextSid, failedAttempts, trustedDevices, nextDev, now, fileVars, hbVars>>

\* ------------------------------------------------------------------ logout
handleLogout(ws) ==
    /\ Receiving(ws)
    /\ LET B1 == IF MapHas(clients, ws)
                 THEN [destroySession(Cur, MapGet(clients, ws).sessionId, "manual")
                         EXCEPT !.log = logSecurityEvent(@, MapGet(clients, ws).password)]
                 ELSE Cur
       IN Commit(handleDisconnect(B1, ws))
    /\ Did("logout", ws, Missing, "")
    /\ UNCHANGED <<wsState, wsVars, nextSid, failedAttempts, trustedDevices, nextDev, now, fileVars, hbVars>>

\* ------------------------------------------------------------ kick_session
\* The session whose token is the text s.  A token is "sess_" followed by 64
\* hex digits; no string of the model has that form.
TokenOf(s) == NoSession

\* kickSession(sessionId, kickerInfo) returns what destroySession returns, a
\* boolean: whether a session was stored under sessionId.
kickSession(B, sessionId) ==
    [B |-> destroySession(B, sessionId, "kicked"),
     result |-> MapHas(B.sessions, sessionId)]

\* `result.success` of the boolean that kickSession returns: undefined.
Success(result) == FALSE

\* The handler passes (clientInfo.password, data.sessionId) to
\* kickSession(sessionId, kickerInfo): the session is looked up under the
\* caller's password.
handleKickSession(ws, sessionId) ==
    /\ Receiving(ws)
    /\ IF ~MapHas(clients, ws)
       THEN /\ out' = <<>>
            /\ DidReq("kick_session", ws, Missing, "no_client", sessionId)
            /\ UNCHANGED <<wsState, regVars, securityLog>>
       ELSE LET clientInfo == MapGet(clients, ws)
                k == kickSession(Cur, TokenOf(clientInfo.password))
                kicked == IF Success(k.result) /\ MapHas(k.B.computers, clientInfo.password)
                          THEN {c \in MapGet(k.B.computers, clientInfo.password).connectedClients :
                                   wsSessionId[c] = sessionId}
                          ELSE {}
                targets == SetToSeq(kicked)
                notices == [i \in 1..Len(targets) |->
                              Frame(targets[i], "session_expired",
                                    "You were disconnected by another user")]
            IN /\ Commit([k.B EXCEPT !.out = @ \o notices \o <<Frame(ws, "kick_result", "")>>,
                                     !.log = IF Success(k.result)
                                             THEN logSecurityEvent(@, clientInfo.password)
                                             ELSE @])
               /\ wsState' = [w \in Transports |->
                                IF w \in kicked /\ wsState[w] = "open"
                                THEN "closing" ELSE wsState[w]]
               /\ DidReq("kick_session", ws, clientInfo.password, "replied", sessionId)
    /\ UNCHANGED <<wsVars, nextSid, failedAttempts, trustedDevices, nextDev, now, fileVars, hbVars>>

\* ---------------------------------------------------- host -> controllers
otherVars == <<wsState, wsVars, regVars, nextSid, failedAttempts, trustedDevices,
               nextDev, now, fileVars, hbVars, securityLog>>

\* ----------------------------------------------------------------- queries
securityLogLimit == 100

\* A reply that carries a list: `users` holds its entries, n their number.
ListFrame(to, type, items) ==
    [to |-> to, type |-> type, msg |-> "", sid |-> NoSession, users |-> items,
     n |-> Cardinality(items), tid |-> NoTransfer, data |-> <<>>]

\* ToIntegerOrInfinity of a string, as Array.prototype.slice applies it to
\* its end argument: the value of a string of digits, 0 (from NaN) for the
\* other strings of the model.
toIntegerOrInfinity(s) == IF s = NumericPw THEN 123456 ELSE 0

\* getSecurityLog(limit = 20) returns securityLog.slice(0, limit).  The log
\* never holds more than securityLogLimit entries, so a slice up to a limit
\* past it is the whole log and a slice up to 0 is empty; no string of the
\* model has a value in between.
getSecurityLog(log, limit) ==
    IF toIntegerOrInfinity(limit) >= securityLogLimit THEN log ELSE {}

\* getTrustedDevices(password): the devices stored with the password's hash.
getTrustedDevices(td, password) ==
    {e[1] : e \in {d \in td : d[2].passwordHash = hashPassword(password)}}

\* getUserSessions(password): the sessions of the password's id set that
\* are stored and not expired.
getUserSessions(B, password, t) ==
    {id \in {B.userSessions[password][i] : i \in 1..Len(B.userSessions[password])} :
        MapHas(B.sessions, id) /\ ~isExpired(MapGet(B.sessions, id), t)}

\* The forEach of handleGetConnectedUsers: getSession is called for every
\* member that has a controller record, and destroys an expired session.
RECURSIVE visitUsers(_, _, _)
visitUsers(B, members, t) ==
    IF members = <<>> THEN B
    ELSE LET c == Head(members)
             B1 == IF MapHas(B.clients, c)
                   THEN getSession(B, MapGet(B.clients, c).sessionId, t).B
                   ELSE B
         IN visitUsers(B1, Tail(members), t)

handleGetSecurityLog(ws) ==
    /\ Receiving(ws)
    /\ IF ~MapHas(clients, ws)
       THEN /\ out' = <<>>
            /\ Did("get_security_log", ws, Missing, "no_client")
       ELSE LET clientInfo == MapGet(clients, ws)
            IN /\ out' = <<ListFrame(ws, "security_log",
                                     getSecurityLog(securityLog, clientInfo.password))>>
               /\ Did("get_security_log", ws, clientInfo.password, "replied")
    /\ UNCHANGED otherVars

handleGetTrustedDevices(ws) ==
    /\ Receiving(ws)
    /\ IF ~MapHas(clients, ws)
       THEN /\ out' = <<>>
            /\ Did("get_trusted_devices", ws, Missing, "no_client")
       ELSE LET clientInfo == MapGet(clients, ws)
            IN /\ out' = <<ListFrame(ws, "trusted_devices",
                                     getTrustedDevices(trustedDevices, clientInfo.password))>>
               /\ Did("get_trusted_devices", ws, clientInfo.password, "replied")
    /\ UNCHANGED otherVars

handleGetSessions(ws) ==
    /\ Receiving(ws)
    /\ IF ~MapHas(clients, ws)
       THEN /\ out' = <<>>
            /\ Did("get_sessions", ws, Missing, "no_client")
       ELSE LET clientInfo == MapGet(clients, ws)
            IN /\ out' = <<ListFrame(ws, "sessions_list",
                                     getUserSessions(Cur, clientInfo.password, now))>>
               /\ Did("get_sessions", ws, clientInfo.password, "replied")
    /\ UNCHANGED otherVars

handleGetConnectedUsers(ws) ==
    /\ Receiving(ws)
    /\ IF ~MapHas(clients, ws)
       THEN /\ out' = <<>>
            /\ Did("get_connected_users", ws, Missing, "no_client")
            /\ UNCHANGED <<regVars, securityLog>>
       ELSE LET clientInfo == MapGet(clients, ws)
            IN IF ~MapHas(computers, clientInfo.password)
               THEN /\ out' = <<>>
                    /\ Did("get_connected_users", ws, clientInfo.password, "no_computer")
                    /\ UNCHANGED <<regVars, securityLog>>
               ELSE LET computer == MapGet(computers, clientInfo.password)
                        B1 == visitUsers(Cur, SetToSeq(computer.connectedClients), now)
                        users == {MapGet(clients, c).sessionId :
                                    c \in {m \in computer.connectedClients : MapHas(clients, m)}}
                    IN /\ Commit([B1 EXCEPT !.out = @ \o <<ListFrame(ws, "connected_users", users)>>])
                       /\ Did("get_connected_users", ws, clientInfo.password, "replied")
    /\ UNCHANGED <<wsState, wsVars, nextSid, failedAttempts, trustedDevices, nextDev, now,
                   fileVars, hbVars>>

\* A host message that is sent on as a frame of `type` to every member of the
\* controller set of the record stored under ws.computerPassword; checkOpen
\* says whether the loop tests readyState === OPEN.
PushToClients(ws, op, type, checkOpen) ==
    /\ Receiving(ws)
    /\ IF computerPassword[ws] = Missing \/ ~MapHas(computers, computerPassword[ws])
       THEN /\ out' = <<>>
            /\ Did(op, ws, computerPassword[ws], "dropped")
       ELSE LET computer == MapGet(computers, computerPassword[ws])
                targets == SetToSeq({c \in computer.connectedClients :
                                        checkOpen => wsState[c] = "open"})
            IN /\ out' = [i \in 1..Len(targets) |-> Frame(targets[i], type, "")]
               /\ Did(op, ws, computerPassword[ws], "sent")
    /\ UNCHANGED otherVars

handleScreenshot(ws)      == PushToClients(ws, "screenshot", "screenshot", TRUE)
handleResult(ws)          == PushToClients(ws, "result", "result", TRUE)
handleFileChangeEvent(ws) == PushToClients(ws, "file_change_event", "file_changed", FALSE)

\* info?.sessionId of a member of a controller set: undefined without a
\* controller record.
SessionIdOf(cl, c) == IF MapHas(cl, c) THEN MapGet(cl, c).sessionId ELSE NoSession

\* Variant: the frame goes to every member of the controller set.
MatchesAny(cl, c, requesterId) == TRUE

\* info?.sessionId === data.requesterId
Matches(cl, c, requesterId) == SessionIdOf(cl, c) = requesterId

\* A host response with a requesterId field (NoSession: the field is absent)
\* that is sent on as a frame of `type` to the members whose controller record
\* carries that session id.
RelayToRequester(ws, op, type, requesterId) ==
    /\ Receiving(ws)
    /\ IF computerPassword[ws] = Missing \/ ~MapHas(computers, computerPassword[ws])
       THEN /\ out' = <<>>
            /\ DidReq(op, ws, computerPassword[ws], "dropped", requesterId)
       ELSE LET computer == MapGet(computers, computerPassword[ws])
                targets == SetToSeq({c \in computer.connectedClients :
                                        Matches(clients, c, requesterId)})
            IN /\ out' = [i \in 1..Len(targets) |-> Frame(targets[i], type, "")]
               /\ DidReq(op, ws, computerPassword[ws], "sent", requesterId)
    /\ UNCHANGED otherVars

handleFileDownloadResponse(ws, requesterId) ==
    RelayToRequester(ws, "file_download_response", "file_download_data", requesterId)
handleFileOperationResult(ws, requesterId) ==
    RelayToRequester(ws, "file_operation_result", "file_operation_result", requesterId)
handleBrowseResultRelay(ws, requesterId) ==
    RelayToRequester(ws, "browse_result_relay", "browse_result", requesterId)
handleWatcherResultRelay(ws, requesterId) ==
    RelayToRequester(ws, "watcher_result", "watcher_result", requesterId)
handleWatchedFoldersRelay(ws, requesterId) ==
    RelayToRequester(ws, "watched_folders", "watched_folders", requesterId)

\* ---------------------------------------------------- controller -> host
\* A controller message that is sent on to the Host as file_command{command};
\* stamped says whether the frame is given requesterId: clientInfo.sessionId.
ForwardFileCommand(ws, op, command, stamped) ==
    /\ Receiving(ws)
    /\ IF ~MapHas(clients, ws)
       THEN /\ out' = <<>>
            /\ Did(op, ws, Missing, "no_client")
       ELSE LET clientInfo == MapGet(clients, ws)
                fwd == IF MapHas(computers, clientInfo.password)
                          /\ wsState[MapGet(computers, clientInfo.password).ws] = "open"
                       THEN <<SidFrame(MapGet(computers, clientInfo.password).ws,
                                       "file_command",
                                       IF stamped THEN clientInfo.sessionId ELSE NoSession,
                                       command)>>
                       ELSE <<>>
            IN /\ out' = fwd
               /\ Did(op, ws, clientInfo.password,
                      IF fwd = <<>> THEN "dropped" ELSE "forwarded")
    /\ UNCHANGED otherVars

handleFileDownloadRequest(ws) ==
    ForwardFileCommand(ws, "file_download_request", "file_download_request", TRUE)
handleBrowseFiles(ws) ==
    ForwardFileCommand(ws, "browse_files", "browse_files", TRUE)
handleFileOperation(ws) ==
    ForwardFileCommand(ws, "file_operation", "file_operation", TRUE)
handleStartFileWatcher(ws) ==
    ForwardFileCommand(ws, "start_file_watcher", "start_watcher", TRUE)
handleStopFileWatcher(ws) ==
    ForwardFileCommand(ws, "stop_file_watcher", "stop_watcher", FALSE)
handleGetWatchedFolders(ws) ==
    ForwardFileCommand(ws, "get_watched_folders", "get_watched_folders", TRUE)

\* ----------------------------------------------------------- file transfer
\* file-handler.js.  Sizes are byte counts.
maxFileSize      == 104857600
recentFilesLimit == 10

allowedTypes ==
    {"application/pdf", "application/msword",
     "application/vnd.openxmlformats-officedocument.wordprocessingml.document",
     "application/vnd.ms-excel",
     "application/vnd.openxmlformats-officedocument.spreadsheetml.sheet",
     "application/vnd.ms-powerpoint",
     "application/vnd.openxmlformats-officedocument.presentationml.presentation",
     "text/plain", "text/csv", "text/html", "text/css", "text/javascript",
     "application/json", "application/xml",
     "image/jpeg", "image/png", "image/gif", "image/webp", "image/svg+xml", "image/bmp",
     "video/mp4", "video/webm", "video/avi", "video/quicktime",
     "audio/mpeg", "audio/wav", "audio/ogg", "audio/mp3",
     "application/zip", "application/x-rar-compressed", "application/x-7z-compressed",
     "application/octet-stream"}

\* The MIME types a message may name; Missing is a message without fileType.
MimeTypes == {"image/png", "text/markdown", "application/x-msdownload", Missing}

\* mimeType.startsWith('text/'), for the strings of the model.
startsWithText(mimeType) ==
    mimeType \in {"text/plain", "text/csv", "text/html", "text/css", "text/javascript",
                  "text/markdown"}

\* A JavaScript value that converts to NaN, such as an object literal.
NaN == -1
\* a > b on numbers: false when either side is NaN.
Greater(a, b) == a # NaN /\ b # NaN /\ a > b

\* A Buffer is a sequence of bytes; a base64 text is a sequence of sextets
\* (0..63) closed by padding marks.
Pad == 64

\* buffer.toString('base64')
RECURSIVE toBase64(_)
toBase64(b) ==
    IF Len(b) = 0 THEN <<>>
    ELSE IF Len(b) = 1
    THEN <<b[1] \div 4, (b[1] % 4) * 16, Pad, Pad>>
    ELSE IF Len(b) = 2
    THEN <<b[1] \div 4, (b[1] % 4) * 16 + b[2] \div 16, (b[2] % 16) * 4, Pad>>
    ELSE <<b[1] \div 4, (b[1] % 4) * 16 + b[2] \div 16,
           (b[2] % 16) * 4 + b[3] \div 64, b[3] % 64>>
         \o toBase64(SubSeq(b, 4, Len(b)))

\* The sextets of a text up to its first padding mark.
RECURSIVE BeforePad(_)
BeforePad(t) ==
    IF t = <<>> \/ Head(t) = Pad THEN <<>>
    ELSE <<Head(t)>> \o BeforePad(Tail(t))

RECURSIVE fromSextets(_)
fromSextets(t) ==
    IF Len(t) < 2 THEN <<>>
    ELSE IF Len(t) = 2
    THEN <<t[1] * 4 + t[2] \div 16>>
    ELSE IF Len(t) = 3
    THEN <<t[1] * 4 + t[2] \div 16, (t[2] % 16) * 16 + t[3] \div 4>>
    ELSE <<t[1] * 4 + t[2] \div 16, (t[2] % 16) * 16 + t[3] \div 4,
           (t[3] % 4) * 64 + t[4]>>
         \o fromSextets(SubSeq(t, 5, Len(t)))

\* Buffer.from(text, 'base64')
fromBase64(t) == fromSextets(BeforePad(t))

\* new FileTransfer(id, fileName, fileSize, fileType, direction, password);
\* chunks is the sparse array as a Map index -> Buffer.
FileTransfer(fileName, fileSize, fileType, direction, password) ==
    [fileName |-> fileName, fileSize |-> fileSize, fileType |-> fileType,
     direction |-> direction, password |-> password,
     chunks |-> {}, receivedSize |-> 0, status |-> "pending"]

\* Variant: a chunk does not replace the one stored under its index.
addChunkKeepFirst(transfer, chunk, index) ==
    [transfer EXCEPT !.chunks = IF MapHas(@, index) THEN @ ELSE MapSet(@, index, chunk),
                     !.receivedSize = @ + Len(chunk),
                     !.status = "transferring"]

addChunk(transfer, chunk, index) ==
    [transfer EXCEPT !.chunks = MapSet(@, index, chunk),
                     !.receivedSize = @ + Len(chunk),
                     !.status = "transferring"]

\* Math.round((receivedSize / fileSize) * 100), for a positive fileSize.
getProgress(transfer) ==
    (200 * transfer.receivedSize + transfer.fileSize) \div (2 * transfer.fileSize)

\* Buffer.concat(chunks.filter(c => c)): the stored buffers by ascending index.
RECURSIVE concat(_)
concat(chunks) ==
    IF chunks = {} THEN <<>>
    ELSE LET first == CHOOSE e \in chunks : \A f \in chunks : e[1] <= f[1]
         IN first[2] \o concat(chunks \ {first})

complete(transfer) ==
    [transfer |-> [transfer EXCEPT !.status = "completed"],
     data |-> concat(transfer.chunks)]

\* isValidFileType(mimeType): reading startsWith of undefined throws.
isValidFileType(mimeType) ==
    IF mimeType \in allowedTypes THEN [threw |-> FALSE, value |-> TRUE]
    ELSE IF mimeType = Missing THEN [threw |-> TRUE, value |-> FALSE]
    ELSE [threw |-> FALSE, value |-> startsWithText(mimeType)]

\* addToRecentFiles(password, fileInfo): getFileExtension reads split of the
\* file name and throws on undefined, after the password's list was created.
addToRecentFiles(rf, password, fileInfo) ==
    LET rf1   == IF MapHas(rf, password) THEN rf ELSE MapSet(rf, password, <<>>)
        files == <<[name |-> fileInfo.fileName, size |-> fileInfo.fileSize,
                    type |-> fileInfo.fileType, direction |-> fileInfo.direction]>>
                 \o MapGet(rf1, password)
        kept  == IF Len(files) > recentFilesLimit
                 THEN SubSeq(files, 1, Len(files) - 1) ELSE files
    IN IF fileInfo.fileName = Missing
       THEN [threw |-> TRUE, rf |-> rf1]
       ELSE [threw |-> FALSE, rf |-> MapSet(rf1, password, kept)]

\* startUpload(fileName, fileSize, fileType, password); id is the fresh
\* transfer id and at the activeTransfers map.
startUpload(at, id, fileName, fileSize, fileType, password) ==
    IF Greater(fileSize, maxFileSize)
    THEN [threw |-> FALSE, success |-> FALSE, error |-> "File too large. Max size: 100 MB",
          transferId |-> NoTransfer, at |-> at]
    ELSE LET valid == isValidFileType(fileType)
         IN IF valid.threw
            THEN [threw |-> TRUE, success |-> FALSE, error |-> "",
                  transferId |-> NoTransfer, at |-> at]
            ELSE IF ~valid.value
            THEN [threw |-> FALSE, success |-> FALSE, error |-> "File type not allowed",
                  transferId |-> NoTransfer, at |-> at]
            ELSE [threw |-> FALSE, success |-> TRUE, error |-> "", transferId |-> id,
                  at |-> MapSet(at, id, FileTransfer(fileName, fileSize, fileType,
                                                     "upload", password))]

\* receiveChunk(transferId, chunkIndex, chunkData); hasProgress says whether
\* the result has a progress field.
receiveChunk(at, transferId, chunkIndex, chunkData) ==
    IF ~MapHas(at, transferId)
    THEN [success |-> FALSE, error |-> "Transfer not found", hasProgress |-> FALSE,
          progress |-> 0, at |-> at]
    ELSE LET transfer == MapGet(at, transferId)
         IN IF transfer.status \in {"cancelled", "failed"}
            THEN [success |-> FALSE, error |-> "Transfer cancelled or failed",
                  hasProgress |-> FALSE, progress |-> 0, at |-> at]
            ELSE LET buffer == fromBase64(chunkData)
                     stored == addChunk(transfer, buffer, chunkIndex)
                 IN [success |-> TRUE, error |-> "", hasProgress |-> TRUE,
                     progress |-> getProgress(stored),
                     at |-> MapSet(at, transferId, stored)]

\* completeUpload(transferId); timers are the pending purge timeouts.
completeUpload(at, rf, timers, transferId) ==
    IF ~MapHas(at, transferId)
    THEN [threw |-> FALSE, success |-> FALSE, error |-> "Transfer not found",
          fileName |-> Missing, fileSize |-> 0, fileData |-> <<>>,
          at |-> at, rf |-> rf, timers |-> timers]
    ELSE LET transfer == MapGet(at, transferId)
             done  == complete(transfer)
             at1   == MapSet(at, transferId, done.transfer)
             added == addToRecentFiles(rf, transfer.password,
                         [fileName |-> transfer.fileName, fileSize |-> transfer.fileSize,
                          fileType |-> transfer.fileType, direction |-> "upload"])
         IN IF added.threw
            THEN [threw |-> TRUE, success |-> FALSE, error |-> "",
                  fileName |-> Missing, fileSize |-> 0, fileData |-> <<>>,
                  at |-> at1, rf |-> added.rf, timers |-> timers]
            ELSE [threw |-> FALSE, success |-> TRUE, error |-> "",
                  fileName |-> transfer.fileName, fileSize |-> transfer.fileSize,
                  fileData |-> toBase64(done.data),
                  at |-> at1, rf |-> added.rf, timers |-> timers \cup {transferId}]

\* Variant: the transfer is marked cancelled and kept in the map.
cancelTransferKeep(at, transferId) ==
    IF MapHas(at, transferId)
    THEN [success |-> TRUE,
          at |-> MapSet(at, transferId,
                        [MapGet(at, transferId) EXCEPT !.status = "cancelled"])]
    ELSE [success |-> FALSE, at |-> at]

\* cancelTransfer(transferId)
cancelTransfer(at, transferId) ==
    IF MapHas(at, transferId)
    THEN [success |-> TRUE, at |-> MapDelete(at, transferId)]
    ELSE [success |-> FALSE, at |-> at]

fileOther == <<wsState, wsVars, regVars, nextSid, failedAttempts, trustedDevices,
               nextDev, now, hbVars, securityLog>>

\* file-handler's exported startUpload called with the arguments of its
\* signature.
StartUpload(fileName, fileSize, fileType, password) ==
    LET result == startUpload(activeTransfers, nextTransfer,
                              fileName, fileSize, fileType, password)
    IN /\ activeTransfers' = result.at
       /\ nextTransfer' = IF result.success THEN nextTransfer + 1 ELSE nextTransfer
       /\ out' = <<>>
       /\ DidArg("startUpload", NoWs, password,
                 IF result.threw THEN "threw"
                 ELSE IF result.success THEN "ok" ELSE result.error,
                 result.transferId, <<fileName, fileSize, fileType>>)
       /\ UNCHANGED <<fileOther, recentFiles, purgeTimers, received>>

\* The history without the chunks of a transfer that left the map.
Forget(rcv, transferId) == {e \in rcv : e[1][1] # transferId}

\* The timeout that completeUpload sets: activeTransfers.delete(transferId).
PurgeTimer(transferId) ==
    /\ transferId \in purgeTimers
    /\ purgeTimers' = purgeTimers \ {transferId}
    /\ activeTransfers' = MapDelete(activeTransfers, transferId)
    /\ out' = <<>>
    /\ received' = Forget(received, transferId)
    /\ DidReq("purge", NoWs, Missing, "", transferId)
    /\ UNCHANGED <<fileOther, recentFiles, nextTransfer>>

\* file_upload_start: the handler passes (clientInfo.password, {fileName,
\* fileSize, fileType}) to startUpload(fileName, fileSize, fileType,
\* password): fileSize is an object, fileType and password are undefined.
\* An exception leaves handleMessage and is logged by the 'message' listener.
handleFileUploadStart(ws, fileName, fileSize, fileType) ==
    /\ Receiving(ws)
    /\ IF ~MapHas(clients, ws)
       THEN /\ out' = <<>>
            /\ DidArg("file_upload_start", ws, Missing, "no_client", NoTransfer,
                      <<fileName, fileSize, fileType>>)
            /\ UNCHANGED <<activeTransfers, nextTransfer>>
       ELSE LET clientInfo == MapGet(clients, ws)
                result == startUpload(activeTransfers, nextTransfer,
                                      clientInfo.password, NaN, Missing, Missing)
            IN /\ activeTransfers' = result.at
               /\ nextTransfer' = IF result.success THEN nextTransfer + 1 ELSE nextTransfer
               /\ out' = IF result.threw THEN <<>>
                         ELSE IF result.success
                         THEN <<FileFrame(ws, "file_upload_ready", result.transferId,
                                          "success", <<>>, 0)>>
                         ELSE <<FileFrame(ws, "file_upload_ready", NoTransfer,
                                          result.error, <<>>, 0)>>
               /\ DidArg("file_upload_start", ws, clientInfo.password,
                         IF result.threw THEN "threw"
                         ELSE IF result.success THEN "ok" ELSE result.error,
                         result.transferId, <<fileName, fileSize, fileType>>)
    /\ UNCHANGED <<fileOther, recentFiles, purgeTimers, received>>

\* file_chunk: a reply is sent only when the result has a progress field.
handleFileChunk(ws, transferId, chunkIndex, data) ==
    /\ Receiving(ws)
    /\ IF ~MapHas(clients, ws)
       THEN /\ out' = <<>>
            /\ DidArg("file_chunk", ws, Missing, "no_client", transferId,
                      <<chunkIndex, data>>)
            /\ UNCHANGED <<activeTransfers, received>>
       ELSE LET result == receiveChunk(activeTransfers, transferId, chunkIndex, data)
            IN /\ activeTransfers' = result.at
               /\ received' = IF result.success
                              THEN MapSet(received, <<transferId, chunkIndex>>, data)
                              ELSE received
               /\ out' = IF result.hasProgress
                         THEN <<FileFrame(ws, "file_progress", transferId, "", <<>>,
                                          result.progress)>>
                         ELSE <<>>
               /\ DidArg("file_chunk", ws, MapGet(clients, ws).password,
                         IF result.success THEN "ok" ELSE result.error, transferId,
                         <<chunkIndex, data>>)
    /\ UNCHANGED <<fileOther, recentFiles, nextTransfer, purgeTimers>>

handleFileUploadComplete(ws, transferId) ==
    /\ Receiving(ws)
    /\ IF ~MapHas(clients, ws)
       THEN /\ out' = <<>>
            /\ DidReq("file_upload_complete", ws, Missing, "no_client", transferId)
            /\ UNCHANGED <<activeTransfers, recentFiles, purgeTimers>>
       ELSE LET clientInfo == MapGet(clients, ws)
                result == completeUpload(activeTransfers, recentFiles, purgeTimers,
                                         transferId)
                fwd == IF MapHas(computers, clientInfo.password)
                          /\ wsState[MapGet(computers, clientInfo.password).ws] = "open"
                       THEN <<FileFrame(MapGet(computers, clientInfo.password).ws,
                                        "file_command", transferId, "file_receive",
                                        result.fileData, result.fileSize)>>
                       ELSE <<>>
            IN /\ activeTransfers' = result.at
               /\ recentFiles' = result.rf
               /\ purgeTimers' = result.timers
               /\ out' = IF result.threw THEN <<>>
                         ELSE IF result.success
                         THEN fwd \o <<FileFrame(ws, "file_upload_success", transferId,
                                                 result.fileName, <<>>, 0)>>
                         ELSE <<FileFrame(ws, "file_upload_error", transferId,
                                          result.error, <<>>, 0)>>
               /\ DidReq("file_upload_complete", ws, clientInfo.password,
                         IF result.threw THEN "threw"
                         ELSE IF result.success THEN "ok" ELSE result.error,
                         transferId)
    /\ UNCHANGED <<fileOther, nextTransfer, received>>

\* file_cancel: no controller record is required and nothing is replied.
handleFileCancel(ws, transferId) ==
    /\ Receiving(ws)
    /\ LET result == cancelTransfer(activeTransfers, transferId)
       IN /\ activeTransfers' = result.at
          /\ received' = IF result.success THEN Forget(received, transferId)
                         ELSE received
          /\ DidReq("file_cancel", ws, Missing,
                    IF result.success THEN "ok" ELSE "Transfer not found", transferId)
    /\ out' = <<>>
    /\ UNCHANGED <<fileOther, recentFiles, nextTransfer, purgeTimers>>

\* ----------------------------------------------------------- specification
\* Whether the handler reaches createSession / registerTrustedDevice, i.e.
\* draws a fresh token; the specifications stop drawing at their bounds.
ConnectCreates(password) ==
    /\ ~checkLockout(failedAttempts, password, now).locked
    /\ validatePassword(password)
    /\ MapHas(computers, password)

AutoLoginCreates(deviceId, password) ==
    /\ validateTrustedDevice(trustedDevices, password, deviceId, now).valid
    /\ MapHas(computers, password)

\* A specification explores the handlers over the inputs I:
\*   T           transports that connect and close
\*   hostT, ctlT transports that send host / controller messages
\*   regPw, conPw, autoDev, autoPw, trusts, infos   message field values
\*   maxSid, maxDev, maxClock   where the fresh tokens and the clock stop
NextOver(I) ==
    \/ \E ws \in I.T : Connection(ws)
    \/ \E ws \in I.T : Close(ws)
    \/ \E ws \in I.hostT, password \in I.regPw : handleRegisterComputer(ws, password)
    \/ \E ws \in I.ctlT, password \in I.conPw, trustDevice \in I.trusts, hasInfo \in I.infos :
          /\ ConnectCreates(password) =>
                nextSid <= I.maxSid /\ (trustDevice /\ hasInfo => nextDev <= I.maxDev)
          /\ handleConnectToComputer(ws, password, trustDevice, hasInfo)
    \/ \E ws \in I.ctlT, deviceId \in I.autoDev, password \in I.autoPw :
          /\ AutoLoginCreates(deviceId, password) => nextSid <= I.maxSid
          /\ handleAutoLogin(ws, deviceId, password)
    \/ \E ws \in I.ctlT : handleRelay(ws)
    \/ \E ws \in I.T : handleLogout(ws)

\* The same handlers with the clock advancing up to I.maxClock.
TimedNextOver(I) ==
    \/ NextOver(I)
    \/ now < I.maxClock /\ Tick

\* Registry: every transport may act as host and as controller of "alpha";
\* all events fall into one tick.
Next ==
    NextOver([T |-> 1..MaxTransports, hostT |-> 1..MaxTransports, ctlT |-> 1..MaxTransports,
              regPw |-> {"alpha", Missing}, conPw |-> {"alpha"},
              trusts |-> {FALSE}, infos |-> {TRUE},
              autoDev |-> {"alpha"}, autoPw |-> {"dev_1"},
              maxSid |-> MaxSessionIds, maxDev |-> MaxDevices, maxClock |-> 0])

Spec == Init /\ [][Next]_vars

\* Two passwords: transport 1 sends host messages, transport 2 controller
\* messages.
NextPasswords ==
    NextOver([T |-> {1, 2}, hostT |-> {1}, ctlT |-> {2},
              regPw |-> {"alpha", "beta"}, conPw |-> {"alpha", "beta"},
              trusts |-> {FALSE}, infos |-> {TRUE},
              autoDev |-> {"alpha"}, autoPw |-> {"dev_1"},
              maxSid |-> MaxPairIds, maxDev |-> MaxDevices, maxClock |-> 0])

SpecPasswords == Init /\ [][NextPasswords]_vars

\* Session cap: the handlers that create or destroy sessions, for one host and
\* one controller that connects again and again, with and without deviceInfo,
\* while the clock advances.
NextSessions ==
    \/ \E ws \in {1, 2} : Connection(ws)
    \/ \E ws \in {1, 2} : Close(ws)
    \/ now < MaxCapClock /\ Tick
    \/ handleRegisterComputer(1, "alpha")
    \/ \E hasInfo \in BOOLEAN :
          /\ ConnectCreates("alpha") => nextSid <= MaxEvictIds
          /\ handleConnectToComputer(2, "alpha", FALSE, hasInfo)
    \/ \E ws \in {1, 2} : handleLogout(ws)

SpecSessions == Init /\ [][NextSessions]_vars

\* Eviction: one host and two controllers, all events in one tick.
NextEviction ==
    NextOver([T |-> {1, 2, 3}, hostT |-> {1}, ctlT |-> {2, 3},
              regPw |-> {"alpha"}, conPw |-> {"alpha"},
              trusts |-> {FALSE}, infos |-> {TRUE},
              autoDev |-> {"alpha"}, autoPw |-> {"dev_1"},
              maxSid |-> MaxEvictIds, maxDev |-> MaxDevices, maxClock |-> 0])

SpecEviction == Init /\ [][NextEviction]_vars

\* Timed: one host, one controller, lockout and idle expiry.
NextTimed ==
    TimedNextOver([T |-> {1, 2}, hostT |-> {1}, ctlT |-> {2},
              regPw |-> {"alpha"}, conPw |-> {"alpha"},
              trusts |-> {FALSE}, infos |-> {TRUE},
              autoDev |-> {"alpha"}, autoPw |-> {"dev_1"},
              maxSid |-> MaxSessionIds, maxDev |-> MaxDevices, maxClock |-> MaxClock])

SpecTimed == Init /\ [][NextTimed]_vars

\* Kick: one host and two controllers of one password; a controller names a
\* session in kick_session.
NextKick ==
    \/ NextOver([T |-> {1, 2, 3}, hostT |-> {1}, ctlT |-> {2, 3},
                 regPw |-> {"alpha"}, conPw |-> {"alpha"},
                 trusts |-> {FALSE}, infos |-> {TRUE},
                 autoDev |-> {"alpha"}, autoPw |-> {"dev_1"},
                 maxSid |-> MaxPairIds, maxDev |-> MaxDevices, maxClock |-> 0])
    \/ \E ws \in {2, 3}, sessionId \in 1..MaxPairIds : handleKickSession(ws, sessionId)

SpecKick == Init /\ [][NextKick]_vars

\* The messages a Host sends for its controllers and the messages a
\* controller sends for its Host; reqs are the requesterId values of the
\* host responses (NoSession: the field is absent).
PushOver(hostT) ==
    \/ \E ws \in hostT : handleScreenshot(ws)
    \/ \E ws \in hostT : handleResult(ws)
    \/ \E ws \in hostT : handleFileChangeEvent(ws)

DirectedOver(hostT, reqs) ==
    \/ \E ws \in hostT, requesterId \in reqs : handleFileDownloadResponse(ws, requesterId)
    \/ \E ws \in hostT, requesterId \in reqs : handleFileOperationResult(ws, requesterId)
    \/ \E ws \in hostT, requesterId \in reqs : handleBrowseResultRelay(ws, requesterId)
    \/ \E ws \in hostT, requesterId \in reqs : handleWatcherResultRelay(ws, requesterId)
    \/ \E ws \in hostT, requesterId \in reqs : handleWatchedFoldersRelay(ws, requesterId)

CommandsOver(ctlT) ==
    \/ \E ws \in ctlT : handleFileDownloadRequest(ws)
    \/ \E ws \in ctlT : handleBrowseFiles(ws)
    \/ \E ws \in ctlT : handleFileOperation(ws)
    \/ \E ws \in ctlT : handleStartFileWatcher(ws)
    \/ \E ws \in ctlT : handleStopFileWatcher(ws)
    \/ \E ws \in ctlT : handleGetWatchedFolders(ws)

\* Router: the registry run with the Host pushes and the controllers' file
\* commands.
NextRouter ==
    \/ Next
    \/ PushOver(1..MaxTransports)
    \/ CommandsOver(1..MaxTransports)

SpecRouter == Init /\ [][NextRouter]_vars

\* Directed responses: one host and two controllers of one password; the
\* handlers that attach and detach controllers, and the host responses.
NextDirected ==
    \/ \E ws \in {1, 2, 3} : Connection(ws)
    \/ \E ws \in {1, 2, 3} : Close(ws)
    \/ handleRegisterComputer(1, "alpha")
    \/ \E ws \in {2, 3} :
          /\ ConnectCreates("alpha") => nextSid <= MaxPairIds
          /\ handleConnectToComputer(ws, "alpha", FALSE, TRUE)
    \/ \E ws \in {2, 3} : handleLogout(ws)
    \/ DirectedOver({1}, 0..MaxPairIds)

SpecDirected == Init /\ [][NextDirected]_vars

\* Touch: the timed run with the controller's file commands.
NextTouch ==
    \/ NextTimed
    \/ CommandsOver({2})

SpecTouch == Init /\ [][NextTouch]_vars

\* Attach and detach: a Host, controllers of "alpha", no other message.
BaseOver(T, hostT, ctlT, maxSid) ==
    \/ \E ws \in T : Connection(ws)
    \/ \E ws \in T : Close(ws)
    \/ \E ws \in hostT : handleRegisterComputer(ws, "alpha")
    \/ \E ws \in ctlT :
          /\ ConnectCreates("alpha") => nextSid <= maxSid
          /\ handleConnectToComputer(ws, "alpha", FALSE, TRUE)

\* The chunk texts of the runs: the base64 texts of two buffers.
ChunkTexts == {toBase64(<<77>>), toBase64(<<1, 255>>)}

\* The upload messages over the inputs I:
\*   T, ctlT     transports that send file_cancel / the other messages
\*   names, sizes, types   fields of file_upload_start
\*   ids, idxs, texts      transferId, chunkIndex and data fields
\*   maxReceived, maxRecent   where chunks and completions stop
UploadOver(I) ==
    \/ \E ws \in I.ctlT, fileName \in I.names, fileSize \in I.sizes, fileType \in I.types :
          handleFileUploadStart(ws, fileName, fileSize, fileType)
    \/ \E ws \in I.ctlT, transferId \in I.ids, chunkIndex \in I.idxs, data \in I.texts :
          /\ MapHas(activeTransfers, transferId) =>
                MapGet(activeTransfers, transferId).receivedSize + Len(fromBase64(data))
                   <= I.maxReceived
          /\ handleFileChunk(ws, transferId, chunkIndex, data)
    \/ \E ws \in I.ctlT, transferId \in I.ids :
          /\ ( /\ MapHas(activeTransfers, transferId)
               /\ MapHas(recentFiles, MapGet(activeTransfers, transferId).password) )
             => Len(MapGet(recentFiles, MapGet(activeTransfers, transferId).password))
                   < I.maxRecent
          /\ handleFileUploadComplete(ws, transferId)
    \/ \E ws \in I.T, transferId \in I.ids : handleFileCancel(ws, transferId)

\* file-handler's own entry points: startUpload as exported, and the purge
\* timeouts.
HandlerOver(I) ==
    \/ \E fileName \in I.names, fileSize \in I.sizes, fileType \in I.types :
          /\ startUpload(activeTransfers, nextTransfer, fileName, fileSize, fileType,
                         "alpha").success
                => nextTransfer <= I.maxTransfers
          /\ StartUpload(fileName, fileSize, fileType, "alpha")
    \/ \E transferId \in I.ids : PurgeTimer(transferId)

UploadInputs ==
    [T |-> {1, 2}, ctlT |-> {2},
     names |-> {"a.txt"}, sizes |-> {3, maxFileSize + 1}, types |-> MimeTypes,
     ids |-> 1..(MaxTransfers + 1), idxs |-> 0..MaxIndex, texts |-> ChunkTexts,
     maxTransfers |-> MaxTransfers, maxReceived |-> MaxReceived, maxRecent |-> MaxRecent]

\* Upload: one Host, one controller and the upload messages as the relay
\* handles them.
NextUpload ==
    \/ BaseOver({1, 2}, {1}, {2}, MaxSessionIds)
    \/ UploadOver(UploadInputs)

SpecUpload == Init /\ [][NextUpload]_vars

\* Files: the same run with transfers started through file-handler's
\* startUpload.
NextFiles ==
    \/ NextUpload
    \/ HandlerOver(UploadInputs)

SpecFiles == Init /\ [][NextFiles]_vars

\* Cancel: one Host, one controller, uploads of one chunk index and one chunk
\* text, started through file-handler's startUpload.
CancelInputs ==
    [T |-> {1, 2}, ctlT |-> {2},
     names |-> {"a.txt"}, sizes |-> {3}, types |-> {"image/png"},
     ids |-> 1..(MaxTransfers + 1), idxs |-> {0}, texts |-> {toBase64(<<1, 255>>)},
     maxTransfers |-> MaxTransfers, maxReceived |-> MaxReceived, maxRecent |-> MaxRecent]

NextCancel ==
    \/ BaseOver({1, 2}, {1}, {2}, MaxSessionIds)
    \/ UploadOver(CancelInputs)
    \/ HandlerOver(CancelInputs)

SpecCancel == Init /\ [][NextCancel]_vars

\* Trust: one Host and two controllers of "alpha"; a controller may ask for
\* device trust when it connects and names the first device id in auto_login.
NextTrust ==
    NextOver([T |-> {1, 2, 3}, hostT |-> {1}, ctlT |-> {2, 3},
              regPw |-> {"alpha"}, conPw |-> {"alpha"},
              trusts |-> BOOLEAN, infos |-> {TRUE},
              autoDev |-> {"dev_1"}, autoPw |-> {"alpha"},
              maxSid |-> MaxPairIds, maxDev |-> MaxDevices, maxClock |-> 0])

SpecTrust == Init /\ [][NextTrust]_vars

\* Heartbeat: one Host, one controller, the heartbeat interval and the
\* transports' pongs.  Every terminated transport gets its 'close' event.
NextHeartbeat ==
    \/ BaseOver({1, 2}, {1}, {2}, MaxSessionIds)
    \/ Heartbeat
    \/ \E ws \in {1, 2} : Pong(ws)

SpecHeartbeat ==
    Init /\ [][NextHeartbeat]_vars /\ \A ws \in {1, 2} : WF_vars(Close(ws))

\* Ping: the timed run with keep-alive pings from both transports.
NextPing ==
    \/ NextTimed
    \/ \E ws \in {1, 2} : handlePing(ws)

SpecPing == Init /\ [][NextPing]_vars

\* Sweep: the timed run with the periodic session sweep.
NextSweep ==
    \/ NextTimed
    \/ Sweep

SpecSweep == Init /\ [][NextSweep]_vars

\* The query messages from the transports ctlT.
QueriesOver(ctlT) ==
    \/ \E ws \in ctlT : handleGetSecurityLog(ws)
    \/ \E ws \in ctlT : handleGetTrustedDevices(ws)
    \/ \E ws \in ctlT : handleGetSessions(ws)
    \/ \E ws \in ctlT : handleGetConnectedUsers(ws)

\* Queries: one host transport that registers "alpha" and a password of
\* digits, one controller transport for both passwords that may trust its
\* device and sends the four queries.
NextQueries ==
    \/ NextOver([T |-> {1, 2}, hostT |-> {1}, ctlT |-> {2},
                 regPw |-> {"alpha", NumericPw}, conPw |-> {"alpha", NumericPw},
                 trusts |-> BOOLEAN, infos |-> {TRUE},
                 autoDev |-> {"dev_1"}, autoPw |-> {"alpha"},
                 maxSid |-> MaxSessionIds, maxDev |-> MaxDevices])
    \/ QueriesOver({2})

SpecQueries == Init /\ [][NextQueries]_vars

\* Validation: a host and a controller transport whose register_computer and
\* connect_to_computer messages carry a well-formed, a short or no password,
\* and that send texts that are not JSON and messages of an unknown type.
NextValidation ==
    \/ NextOver([T |-> {1, 2}, hostT |-> {1}, ctlT |-> {2},
                 regPw |-> {"alpha", ShortPw, Missing},
                 conPw |-> {"alpha", ShortPw, Missing},
                 trusts |-> {FALSE}, infos |-> {TRUE},
                 autoDev |-> {"dev_1"}, autoPw |-> {"alpha"},
                 maxSid |-> MaxSessionIds, maxDev |-> MaxDevices])
    \/ \E ws \in {1, 2} : InvalidMessage(ws)
    \/ \E ws \in {1, 2} : handleUnknownType(ws)

SpecValidation == Init /\ [][NextValidation]_vars

\* Assembly: a Host and a controller that stay connected, transfers of
\* "alpha" stored through file-handler's startUpload, and chunks of both
\* texts under every index in any order, for the transfer that was started
\* first.
AssemblyInputs ==
    [T |-> {2}, ctlT |-> {2},
     names |-> {"a.txt"}, sizes |-> {3}, types |-> {"image/png"},
     ids |-> {1}, idxs |-> 0..MaxIndex, texts |-> ChunkTexts,
     maxTransfers |-> MaxTransfers, maxReceived |-> MaxReceived, maxRecent |-> MaxRecent]

NextAssembly ==
    \/ \E ws \in {1, 2} : Connection(ws)
    \/ handleRegisterComputer(1, "alpha")
    \/ /\ ConnectCreates("alpha") => nextSid <= MaxSessionIds
       /\ handleConnectToComputer(2, "alpha", FALSE, TRUE)
    \/ UploadOver(AssemblyInputs)
    \/ HandlerOver(AssemblyInputs)

SpecAssembly == Init /\ [][NextAssembly]_vars

\* Rotation: one Host and one controller of "alpha" that may ask for device
\* trust; auto_login names the first or a never-issued device id and presents
\* the password of the trust or another one.
NextRotation ==
    NextOver([T |-> {1, 2}, hostT |-> {1}, ctlT |-> {2},
              regPw |-> {"alpha"}, conPw |-> {"alpha"},
              trusts |-> BOOLEAN, infos |-> {TRUE},
              autoDev |-> {"dev_1", "dev_4"}, autoPw |-> {"alpha", "beta"},
              maxSid |-> MaxPairIds, maxDev |-> MaxDevices])

SpecRotation == Init /\ [][NextRotation]_vars

\* Takeover: two transports that register as Host of "alpha", one controller,
\* and the host messages from both host transports.
NextTakeover ==
    \/ BaseOver({1, 2, 3}, {1, 2}, {3}, MaxSessionIds)
    \/ PushOver({1, 2})
    \/ DirectedOver({1, 2}, 0..MaxSessionIds)

SpecTakeover == Init /\ [][NextTakeover]_vars

\* ------------------------------------------------------------------ claims
HostRecords(p) == {e \in computers : e[1] = p}
SessionsOf(p)  == {e \in sessions : e[2].password = p}
HostOf(p)      == MapGet(computers, p)

\* C1: in every reachable state there is at most one Host record per password.
C1_OneHostPerPassword ==
    \A p \in Strings : Cardinality(HostRecords(p)) <= 1

\* A second transport has just registered under a password that an earlier,
\* still open host transport registered under.
C1_Witness ==
    /\ last.op = "register_computer" /\ last.res = "ok"
    /\ \E w \in Transports :
          /\ w # last.ws
          /\ wsState[w] = "open"
          /\ isComputer[w] /\ computerPassword[w] = last.pw
    /\ Cardinality(HostRecords(last.pw)) = 1
    /\ HostOf(last.pw).ws = last.ws

\* What the step just taken was (every handler sets `last`).
Stepped(op, ws, pw) == last'.op = op /\ last'.ws = ws /\ last'.pw = pw

FramesTo(frames, w, type) ==
    {i \in 1..Len(frames) : frames[i].to = w /\ frames[i].type = type}

\* C2: when register_computer{password p} arrives from a transport while
\* another open transport holds the Host record for p, the old transport is
\* sent `replaced` and is closed, the new record (empty controller set) is
\* installed and the new transport is sent registered{success:true}.
C2_HostTakeover ==
    [][\A ws \in Transports, p \in Passwords :
         ( /\ Stepped("register_computer", ws, p)
           /\ MapHas(computers, p)
           /\ HostOf(p).ws # ws
           /\ wsState[HostOf(p).ws] = "open" )
         => ( /\ FramesTo(out', HostOf(p).ws, "replaced") # {}
              /\ wsState'[HostOf(p).ws] # "open"
              /\ MapGet(computers', p) = [ws |-> ws, connectedClients |-> {}]
              /\ FramesTo(out', ws, "registered") # {} )]_vars

\* C3: once H2 holds the Host record for p that H1 registered before, the
\* close of H1 neither removes nor alters that record and sends no
\* computer_disconnected.
C3_ReplacedHostCloseIsInert ==
    [][\A h1 \in Transports, p \in Passwords :
         ( /\ Stepped("close", h1, Missing)
           /\ isComputer[h1] /\ computerPassword[h1] = p
           /\ MapHas(computers, p)
           /\ HostOf(p).ws # h1 )
         => ( /\ MapHas(computers', p)
              /\ MapGet(computers', p) = HostOf(p)
              /\ \A i \in 1..Len(out') : out'[i].type # "computer_disconnected" )]_vars

\* C4: every transport in the controller set of the Host record for p has a
\* controller record, and that record's password is p.
C4_ControllerSetMatchesRecords ==
    \A e \in computers : \A c \in e[2].connectedClients :
        MapHas(clients, c) /\ MapGet(clients, c).password = e[1]

\* C5: role latching: no transport is ever classified both as a Host
\* (ws.isComputer) and as a Controller (ws.clientPassword set).
C5_RoleLatching ==
    \A w \in Transports : ~(isComputer[w] /\ clientPassword[w] # Missing)

\* C6: each password has at most maxSessionsPerUser sessions; a createSession
\* for a password that has that many removes exactly one session, one with
\* the smallest createdAt of that password, and adds the new one.
C6_SessionCap ==
    [][ /\ \A p \in Strings : Cardinality(SessionsOf(p)') <= maxSessionsPerUser
        /\ \A p \in Passwords :
             ( /\ nextSid' = nextSid + 1
               /\ last'.pw = p
               /\ Cardinality(SessionsOf(p)) = maxSessionsPerUser )
             => \E old \in SessionsOf(p) :
                  /\ \A e \in SessionsOf(p) : old[2].createdAt <= e[2].createdAt
                  /\ sessions' = (sessions \ {old}) \cup
                        {<<nextSid, [password |-> p, createdAt |-> now,
                                     lastActivity |-> now, ws |-> NoWs]>>} ]_vars

\* A connect has just evicted a session while sessions created at a later
\* tick than the evicted one were present.
C6_Witness ==
    /\ last.op = "connect_to_computer"
    /\ last.evicted # NoSession
    /\ ~MapHas(sessions, last.evicted)
    /\ Cardinality(SessionsOf(last.pw)) = maxSessionsPerUser
    /\ \E e \in SessionsOf(last.pw) : e[1] # nextSid - 1 /\ e[2].createdAt > 0
    /\ \E e \in SessionsOf(last.pw) : e[2].createdAt = 0

\* C7: when a controller attaches under a password that already has
\* maxSessionsPerUser sessions, the attach succeeds and the other, still open
\* controller transport that owns the evicted session is sent
\* session_expired{reason:"max_sessions_exceeded"}.
C7_EvictedOwnerNotified ==
    [][\A ws \in Transports, p \in Passwords :
         ( /\ Stepped("connect_to_computer", ws, p)
           /\ ConnectCreates(p)
           /\ Cardinality(SessionsOf(p)) >= maxSessionsPerUser )
         => ( /\ FramesTo(out', ws, "connected") # {}
              /\ \A owner \in Transports :
                   ( /\ owner # ws
                     /\ wsState[owner] = "open"
                     /\ MapHas(clients, owner)
                     /\ MapHas(sessions, MapGet(clients, owner).sessionId)
                     /\ ~MapHas(sessions', MapGet(clients, owner).sessionId) )
                   => \E i \in FramesTo(out', owner, "session_expired") :
                         out'[i].msg = "max_sessions_exceeded" )]_vars

\* C8: a relay from a controller is forwarded to the Host as `command` only
\* if the controller's session exists and is not idle-expired; otherwise
\* nothing is forwarded and the controller is sent session_expired.
C8_RelayNeedsLiveSession ==
    [][\A ws \in Transports :
         (last'.op = "relay" /\ last'.ws = ws /\ MapHas(clients, ws))
         => LET sid  == MapGet(clients, ws).sessionId
                live == MapHas(sessions, sid) /\ ~isExpired(MapGet(sessions, sid), now)
                fwd  == {i \in 1..Len(out') : out'[i].type = "command"}
            IN /\ fwd # {} => live
               /\ ~live => fwd = {} /\ FramesTo(out', ws, "session_expired") # {} ]_vars

\* C9: once maxFailedAttempts failures are recorded for p, a
\* connect_to_computer for p inside the lockout window is answered with the
\* `Too many attempts` error only: no session, no controller record, no
\* change of the Host record, nothing sent to anyone else.
C9_LockedConnectRejected ==
    [][\A ws \in Transports, p \in Fields :
         ( /\ Stepped("connect_to_computer", ws, p)
           /\ MapHas(failedAttempts, p)
           /\ MapGet(failedAttempts, p).count >= maxFailedAttempts
           /\ now - MapGet(failedAttempts, p).lastAttempt < lockoutDuration )
         => ( /\ Len(out') = 1
              /\ out'[1].to = ws /\ out'[1].type = "error"
              /\ out'[1].msg = "Too many attempts"
              /\ UNCHANGED <<computers, clients, sessions, userSessions, nextSid>> )]_vars

\* The sixth connect was refused although a Host for the password is
\* registered and open.
C9_Witness ==
    /\ last.op = "connect_to_computer" /\ last.res = "locked"
    /\ MapHas(computers, last.pw)
    /\ wsState[HostOf(last.pw).ws] = "open"
    /\ MapGet(failedAttempts, last.pw).count = maxFailedAttempts

\* C10: a successful connect_to_computer for p clears p's failed-attempt
\* entry, and nothing else removes the entry before the lockout window has
\* elapsed.
C10_SuccessClearsFailedAttempts ==
    [][\A p \in Fields :
         /\ ( /\ last'.op = "connect_to_computer" /\ last'.pw = p
              /\ FramesTo(out', last'.ws, "connected") # {} )
            => ~MapHas(failedAttempts', p)
         /\ ( /\ MapHas(failedAttempts, p) /\ ~MapHas(failedAttempts', p)
              /\ now - MapGet(failedAttempts, p).lastAttempt < lockoutDuration )
            => ( /\ last'.op = "connect_to_computer" /\ last'.pw = p
                 /\ FramesTo(out', last'.ws, "connected") # {} ) ]_vars

\* The password's failed-attempt entry has reached the threshold and its last
\* recorded failure is less than lockoutDuration old.
Locked(p) ==
    /\ MapHas(failedAttempts, p)
    /\ MapGet(failedAttempts, p).count >= maxFailedAttempts
    /\ now - MapGet(failedAttempts, p).lastAttempt < lockoutDuration

\* C11 (as stated): a connect_to_computer made while the password is locked
\* restarts the lockout window: afterwards the entry's lastAttempt is the time
\* of that connect, so the password unlocks lockoutDuration after it.
C11_LockedConnectRestartsWindow ==
    [][\A ws \in Transports, p \in Fields :
         (Stepped("connect_to_computer", ws, p) /\ Locked(p))
         => ( /\ MapHas(failedAttempts', p)
              /\ MapGet(failedAttempts', p).lastAttempt = now )]_vars

\* C11 (amended): while a password is locked no step changes its entry, a
\* connect_to_computer included, and a connect_to_computer is refused as
\* locked exactly when the last recorded failure is less than lockoutDuration
\* old: the unlock time stays lockoutDuration after the fifth failure.
C11_UnlockTimeFixed ==
    [][\A p \in Fields :
         /\ Locked(p) => ( /\ MapHas(failedAttempts', p)
                           /\ MapGet(failedAttempts', p) = MapGet(failedAttempts, p) )
         /\ \A ws \in Transports :
               Stepped("connect_to_computer", ws, p)
               => (last'.res = "locked" <=> Locked(p)) ]_vars

\* A connect was refused as locked at a later tick than the fifth failure and
\* the entry still carries the time of that failure.
C11_Witness ==
    /\ last.op = "connect_to_computer" /\ last.res = "locked"
    /\ MapGet(failedAttempts, last.pw).count = maxFailedAttempts
    /\ MapGet(failedAttempts, last.pw).lastAttempt < now

\* C12: kick_session{sessionId} from a controller of password p that names a
\* live session of p removes that session from the session table, closes the
\* transport that owns it and replies kick_result to the caller.
C12_KickDestroysSession ==
    [][\A ws \in Transports, sid \in 1..MaxPairIds :
         ( /\ last'.op = "kick_session" /\ last'.ws = ws /\ last'.req = sid
           /\ MapHas(clients, ws)
           /\ MapHas(sessions, sid)
           /\ MapGet(sessions, sid).password = MapGet(clients, ws).password
           /\ ~isExpired(MapGet(sessions, sid), now) )
         => ( /\ ~MapHas(sessions', sid)
              /\ \A c \in Transports :
                    (MapHas(clients, c) /\ MapGet(clients, c).sessionId = sid)
                    => wsState'[c] # "open"
              /\ FramesTo(out', ws, "kick_result") # {} )]_vars

\* C13: after a controller sends logout its session is absent from the
\* session table, its transport is absent from its Host's controller set and
\* from the controllers map, and users_changed is sent to the Host; a later
\* relay on a transport without a controller record forwards nothing.
C13_LogoutDetaches ==
    [][\A ws \in Transports :
         /\ (last'.op = "logout" /\ last'.ws = ws /\ MapHas(clients, ws))
            => LET clientInfo == MapGet(clients, ws)
               IN /\ ~MapHas(sessions', clientInfo.sessionId)
                  /\ ~MapHas(clients', ws)
                  /\ MapHas(computers', clientInfo.password)
                        => ws \notin MapGet(computers', clientInfo.password).connectedClients
                  /\ MapHas(computers, clientInfo.password)
                        => FramesTo(out', HostOf(clientInfo.password).ws, "users_changed") # {}
         /\ (last'.op = "relay" /\ last'.ws = ws /\ ~MapHas(clients, ws))
            => out' = <<>> ]_vars

\* C14: when the transport recorded as Host of p closes, every member of its
\* controller set is sent computer_disconnected and loses its controller
\* record; no controller record refers to a password without a Host record,
\* and a relay is forwarded only from a member of the Host's controller set.
C14_HostDetachUnattaches ==
    [][ /\ \A h \in Transports, p \in Passwords :
             ( /\ Stepped("close", h, Missing)
               /\ MapHas(computers, p) /\ HostOf(p).ws = h
               /\ isComputer[h] /\ computerPassword[h] = p )
             => ( /\ ~MapHas(computers', p)
                  /\ \A c \in HostOf(p).connectedClients :
                        /\ FramesTo(out', c, "computer_disconnected") # {}
                        /\ ~MapHas(clients', c)
                  /\ \A e \in clients' : MapHas(computers', e[2].password) )
        /\ (last'.op = "relay" /\ last'.res = "forwarded")
             => last'.ws \in MapGet(computers', last'.pw).connectedClients ]_vars

\* C15: when a transport with a controller record closes, its session is
\* destroyed and its controller record removed; if the Host record of its
\* password exists, the transport is removed from that record's controller
\* set and users_changed is sent to the Host.
C15_ControllerCloseDetaches ==
    [][\A ws \in Transports :
         (Stepped("close", ws, Missing) /\ MapHas(clients, ws))
         => LET clientInfo == MapGet(clients, ws)
            IN /\ ~MapHas(sessions', clientInfo.sessionId)
               /\ ~MapHas(clients', ws)
               /\ MapHas(computers, clientInfo.password)
                     => /\ MapHas(computers', clientInfo.password)
                        /\ ws \notin MapGet(computers', clientInfo.password).connectedClients
                        /\ FramesTo(out', HostOf(clientInfo.password).ws,
                                    "users_changed") # {} ]_vars

BroadcastTypes == {"computer_disconnected", "file_changed", "screenshot", "result"}

\* The frames of `frames` that a broadcast addresses to controllers: the
\* frames of the broadcast types and every users_changed after the first,
\* which is the Host's.
ToControllers(frames) ==
    {i \in 1..Len(frames) :
        \/ frames[i].type \in BroadcastTypes
        \/ /\ frames[i].type = "users_changed"
           /\ \E j \in 1..(i - 1) : frames[j].type = "users_changed"}

\* C16: a broadcast frame is only sent to a controller transport that is
\* open, and a closed transport is a member of no Host's controller set.
C16_BroadcastOnlyToOpenMembers ==
    /\ \A i \in ToControllers(out) : wsState[out[i].to] = "open"
    /\ \A e \in computers : \A c \in e[2].connectedClients : wsState[c] # "closed"

\* The step attached ws under p (a `connected` reply) or detached it (close
\* or logout of a transport with a controller record for p).
AttachOrDetach(ws, p) ==
    \/ /\ last'.op \in {"connect_to_computer", "auto_login"}
       /\ last'.ws = ws /\ last'.pw = p /\ last'.res = "ok"
    \/ /\ last'.op \in {"close", "logout"} /\ last'.ws = ws
       /\ MapHas(clients, ws) /\ MapGet(clients, ws).password = p

\* C17: after every attach and detach under p of a transport other than the
\* Host's, the Host of p and every member of its controller set are sent
\* users_changed whose users are the session ids of the members' controller
\* records and whose totalCount is the number of members.
C17_PresenceBroadcast ==
    [][\A ws \in Transports, p \in Passwords :
         (AttachOrDetach(ws, p) /\ MapHas(computers, p) /\ HostOf(p).ws # ws)
         => /\ MapHas(computers', p)
            /\ LET computer == MapGet(computers', p)
                   users == {SessionIdOf(clients', c) : c \in computer.connectedClients}
               IN \A w \in {computer.ws} \cup computer.connectedClients :
                     \E i \in FramesTo(out', w, "users_changed") :
                         /\ out'[i].users = users
                         /\ NoSession \notin users
                         /\ out'[i].n = Cardinality(computer.connectedClients) ]_vars

\* C18: on a successful attach the `connected` frame precedes, on the
\* attaching transport, the users_changed frame caused by the attach.
C18_ConnectedBeforePresence ==
    (last.op \in {"connect_to_computer", "auto_login"} /\ last.res = "ok")
    => \A i \in FramesTo(out, last.ws, "users_changed") :
          \E j \in FramesTo(out, last.ws, "connected") : j < i

DirectedOps == {"file_download_response", "file_operation_result",
                "browse_result_relay", "watcher_result", "watched_folders"}

\* The members of the controller set of the record under the sender's
\* password whose controller record carries the session id `req`.
Requesters(ws, req) ==
    IF computerPassword[ws] # Missing /\ MapHas(computers, computerPassword[ws])
    THEN {c \in HostOf(computerPassword[ws]).connectedClients :
             MapHas(clients, c) /\ MapGet(clients, c).sessionId = req}
    ELSE {}

\* C19: a Host response that carries a requesterId is delivered once to the
\* member of the Host's controller set whose sessionId equals requesterId;
\* there is at most one such member, no frame goes to anyone else, and no
\* frame is sent when no member matches.
C19_DirectedUniqueness ==
    (last.op \in DirectedOps /\ last.req # NoSession)
    => /\ Cardinality(Requesters(last.ws, last.req)) <= 1
       /\ Len(out) = Cardinality(Requesters(last.ws, last.req))
       /\ \A i \in 1..Len(out) : out[i].to \in Requesters(last.ws, last.req)

\* The Host answered the second of two attached, open controllers: one frame
\* went out, to that controller.
C19_Witness ==
    /\ last.op = "browse_result_relay" /\ last.req # NoSession
    /\ Len(out) = 1 /\ out[1].type = "browse_result"
    /\ MapGet(clients, out[1].to).sessionId = last.req
    /\ \E c \in HostOf(computerPassword[last.ws]).connectedClients :
          /\ c # out[1].to
          /\ wsState[c] = "open"
          /\ MapHas(clients, c) /\ MapGet(clients, c).sessionId < last.req

CommandOps == {"file_download_request", "browse_files", "file_operation",
               "start_file_watcher", "stop_file_watcher", "get_watched_folders"}

\* C20: every file_command forwarded for one of the six controller requests
\* carries requesterId equal to the sending controller's sessionId.
C20_CommandsCarryRequesterId ==
    last.op \in CommandOps
    => \A i \in 1..Len(out) :
          out[i].type = "file_command"
          => /\ out[i].sid # NoSession
             /\ out[i].sid = SessionIdOf(clients, last.ws)

ControllerOps == {"relay"} \cup CommandOps

\* C21: every message accepted from an attached controller whose session is
\* live sets that session's lastActivity to the time of the message.
C21_MessagesTouchSession ==
    [][\A ws \in Transports :
          ( /\ last'.ws = ws /\ last'.op \in ControllerOps
            /\ MapHas(clients, ws)
            /\ MapHas(sessions, MapGet(clients, ws).sessionId)
            /\ ~isExpired(MapGet(sessions, MapGet(clients, ws).sessionId), now) )
          => /\ MapHas(sessions', MapGet(clients, ws).sessionId)
             /\ MapGet(sessions', MapGet(clients, ws).sessionId).lastActivity = now]_vars

\* The same statement for relay alone.
C21_RelayTouchesSession ==
    [][\A ws \in Transports :
          ( /\ last'.ws = ws /\ last'.op = "relay"
            /\ MapHas(clients, ws)
            /\ MapHas(sessions, MapGet(clients, ws).sessionId)
            /\ ~isExpired(MapGet(sessions, MapGet(clients, ws).sessionId), now) )
          => /\ MapHas(sessions', MapGet(clients, ws).sessionId)
             /\ MapGet(sessions', MapGet(clients, ws).sessionId).lastActivity = now]_vars

\* What section 4.E accepts: a size within the limit and a MIME type of the
\* allowlist or under text/.
Acceptable(fileSize, fileType) ==
    /\ fileSize <= maxFileSize
    /\ fileType \in allowedTypes \/ fileType \in {"text/markdown"}

\* The buffers stored under the indexes i..MaxIndex, lowest index first.
RECURSIVE Ascending(_, _)
Ascending(chunks, i) ==
    IF i > MaxIndex + 1 THEN <<>>
    ELSE (IF MapHas(chunks, i) THEN MapGet(chunks, i) ELSE <<>>)
         \o Ascending(chunks, i + 1)

\* A file_upload_complete for a stored transfer forwards to the open Host of
\* the sender one file_command file_receive whose fileData is the base64 text
\* of the stored buffers in ascending index order.
CompleteDelivers ==
    \A ws \in Transports :
       ( /\ last'.op = "file_upload_complete" /\ last'.ws = ws
         /\ MapHas(clients, ws)
         /\ MapHas(activeTransfers, last'.req)
         /\ MapGet(activeTransfers, last'.req).fileName # Missing
         /\ MapHas(computers, MapGet(clients, ws).password)
         /\ wsState[MapGet(computers, MapGet(clients, ws).password).ws] = "open" )
       => /\ Len(out') = 2
          /\ out'[1].to = MapGet(computers, MapGet(clients, ws).password).ws
          /\ out'[1].type = "file_command" /\ out'[1].msg = "file_receive"
          /\ out'[1].tid = last'.req
          /\ out'[1].data =
                toBase64(Ascending(MapGet(activeTransfers, last'.req).chunks, 0))

\* An acceptable file_upload_start of an attached controller is answered
\* file_upload_ready{success:true, transferId} and stores a transfer under
\* that id.
StartAccepted ==
    \A ws \in Transports :
       ( /\ last'.op = "file_upload_start" /\ last'.ws = ws
         /\ MapHas(clients, ws)
         /\ Acceptable(last'.arg[2], last'.arg[3]) )
       => /\ out' = <<FileFrame(ws, "file_upload_ready", last'.req, "success", <<>>, 0)>>
          /\ last'.req # NoTransfer
          /\ ~MapHas(activeTransfers, last'.req)
          /\ MapHas(activeTransfers', last'.req)

C22_CompleteDelivers == [][CompleteDelivers]_vars

\* The Host has been sent a file whose chunks arrived with both indexes.
C22_Delivered ==
    /\ last.op = "file_upload_complete" /\ last.res = "ok"
    /\ Len(out) = 2 /\ out[1].type = "file_command"
    /\ out[1].data = toBase64(<<77, 1, 255>>)

\* The outcome section 4.E gives a start with the fields of last'.arg: the
\* frames `reply` and the activeTransfers map.
StartValidated(to, reply) ==
    IF last'.arg[2] > maxFileSize
    THEN /\ reply = <<FileFrame(to, "file_upload_ready", NoTransfer,
                                "File too large. Max size: 100 MB", <<>>, 0)>>
         /\ activeTransfers' = activeTransfers
    ELSE IF ~Acceptable(last'.arg[2], last'.arg[3])
    THEN /\ reply = <<FileFrame(to, "file_upload_ready", NoTransfer,
                                "File type not allowed", <<>>, 0)>>
         /\ activeTransfers' = activeTransfers
    ELSE /\ reply = <<FileFrame(to, "file_upload_ready", last'.req, "success", <<>>, 0)>>
         /\ last'.req # NoTransfer
         /\ ~MapHas(activeTransfers, last'.req)
         /\ MapHas(activeTransfers', last'.req)

\* C23: a file_upload_start of an attached controller is rejected with
\* `File too large` when fileSize exceeds the limit, with `File type not
\* allowed` when the type is neither listed nor under text/, and otherwise
\* stores a transfer and is answered file_upload_ready{success:true,
\* transferId}; a rejected start stores nothing.
C23_StartValidated ==
    [][\A ws \in Transports :
          (last'.op = "file_upload_start" /\ last'.ws = ws /\ MapHas(clients, ws))
          => StartValidated(ws, out')]_vars

\* startUpload itself, called with a fileType: the result that the handler
\* would turn into the reply is the one section 4.E gives.
C23_StartUploadValidates ==
    [][(last'.op = "startUpload" /\ last'.arg[3] # Missing)
          => StartValidated(NoWs,
                <<FileFrame(NoWs, "file_upload_ready", last'.req,
                            IF last'.res = "ok" THEN "success" ELSE last'.res,
                            <<>>, 0)>>)]_vars

Uncompleted(at, p) == {e \in at : e[2].password = p /\ e[2].status # "completed"}

UploadOps == {"file_chunk", "file_upload_complete"}

\* C26: file_cancel deletes the transfer stored under its transferId; a
\* file_chunk or file_upload_complete for an id without a stored transfer
\* fails with `Transfer not found`, forwards nothing to the Host and leaves
\* the transfers and RecentFiles as they are; an id that was issued and
\* deleted is never stored again; file_cancel for an id without a stored
\* transfer changes no state.
C26_CancelDeletes ==
    [][ /\ last'.op = "file_cancel"
           => /\ ~MapHas(activeTransfers', last'.req)
              /\ MapDelete(activeTransfers', last'.req)
                    = MapDelete(activeTransfers, last'.req)
              /\ ~MapHas(activeTransfers, last'.req)
                    => activeTransfers' = activeTransfers
              /\ out' = <<>>
              /\ UNCHANGED <<recentFiles, nextTransfer, purgeTimers, fileOther>>
        /\ (last'.op \in UploadOps /\ ~MapHas(activeTransfers, last'.req))
           => /\ MapHas(clients, last'.ws) => last'.res = "Transfer not found"
              /\ \A i \in 1..Len(out') : out'[i].type # "file_command"
              /\ UNCHANGED <<activeTransfers, recentFiles, nextTransfer, purgeTimers,
                             fileOther>>
        /\ \A id \in 1..(nextTransfer - 1) :
              ~MapHas(activeTransfers, id) => ~MapHas(activeTransfers', id) ]_vars

\* A file_upload_complete for an id that was issued and cancelled (no upload
\* was ever completed, so no purge ever ran) has been answered
\* file_upload_error while the sender's Host is open.
C26_Witness ==
    /\ last.op = "file_upload_complete" /\ last.res = "Transfer not found"
    /\ last.req \in 1..(nextTransfer - 1)
    /\ recentFiles = {} /\ purgeTimers = {}
    /\ out = <<FileFrame(last.ws, "file_upload_error", last.req,
                         "Transfer not found", <<>>, 0)>>
    /\ MapHas(clients, last.ws)
    /\ MapHas(computers, MapGet(clients, last.ws).password)
    /\ wsState[MapGet(computers, MapGet(clients, last.ws).password).ws] = "open"

\* C27: auto_login{deviceId d, password p}, where d is a trusted device
\* registered under p that has not expired and a Host is registered under p,
\* attaches the sender (controller record, new session, member of the Host's
\* set) and is answered `connected`.
C27_AutoLoginAttaches ==
    [][\A ws \in Transports :
          ( /\ last'.op = "auto_login" /\ last'.ws = ws
            /\ MapHas(trustedDevices, last'.arg[1])
            /\ MapGet(trustedDevices, last'.arg[1]).passwordHash = hashPassword(last'.pw)
            /\ now - MapGet(trustedDevices, last'.arg[1]).createdAt <= trustedDeviceExpiry
            /\ MapHas(computers, last'.pw) )
          => /\ MapHas(clients', ws)
             /\ MapGet(clients', ws).password = last'.pw
             /\ ~MapHas(sessions, MapGet(clients', ws).sessionId)
             /\ MapHas(sessions', MapGet(clients', ws).sessionId)
             /\ ws \in MapGet(computers', last'.pw).connectedClients
             /\ FramesTo(out', ws, "connected") # {}]_vars

\* C28: an open transport has been pinged at most once since its last pong
\* (the second heartbeat after the pong terminates it); the heartbeat
\* terminates only a transport whose last ping is unanswered and changes no
\* table itself; a terminated transport reaches its 'close' event, which runs
\* handleDisconnect.
C28_Heartbeat ==
    /\ [](\A ws \in Transports : wsState[ws] = "open" => sincePong[ws] <= 1)
    /\ [][last'.op = "heartbeat"
            => /\ \A ws \in Transports :
                     (wsState[ws] = "open" /\ wsState'[ws] # "open")
                     => wsState'[ws] = "closing" /\ sincePong[ws] = 1
               /\ UNCHANGED regVars]_vars
    /\ [][\A ws \in Transports :
             (wsState[ws] = "closing" /\ wsState'[ws] # "closing")
             => /\ wsState'[ws] = "closed"
                /\ [computers |-> computers', clients |-> clients',
                    sessions |-> sessions', userSessions |-> userSessions',
                    out |-> out', log |-> securityLog'] = handleDisconnect(Cur, ws)]_vars
    /\ \A ws \in Transports : (wsState[ws] = "closing") ~> (wsState[ws] = "closed")

\* The heartbeat has just terminated an attached controller that left a ping
\* unanswered and has pinged the Host, which answered its last ping.
C28_Witness ==
    /\ last.op = "heartbeat"
    /\ \E ws \in Transports :
          /\ wsState[ws] = "closing" /\ sincePong[ws] = 1 /\ MapHas(clients, ws)
          /\ MapHas(computers, MapGet(clients, ws).password)
          /\ LET host == MapGet(computers, MapGet(clients, ws).password).ws
             IN host # ws /\ wsState[host] = "open" /\ sincePong[host] = 1

\* C29: a ping is answered with one pong on the transport it came from and
\* leaves the host registry, the controller map, the session table, the
\* failed-attempt map and the transfer map unchanged.
C29_PingChangesNothing ==
    [][last'.op = "ping"
          => /\ out' = <<Frame(last'.ws, "pong", "")>>
             /\ UNCHANGED <<computers, clients, sessions, userSessions,
                            failedAttempts, activeTransfers>>]_vars

\* An attached controller whose session has been idle for some time has just
\* been answered a ping, with failed attempts on record.
C29_Witness ==
    /\ last.op = "ping" /\ out = <<Frame(last.ws, "pong", "")>>
    /\ MapHas(clients, last.ws)
    /\ MapHas(sessions, MapGet(clients, last.ws).sessionId)
    /\ MapGet(sessions, MapGet(clients, last.ws).sessionId).lastActivity < now
    /\ computers # {} /\ failedAttempts # {}

\* The sessions of table `tbl` that are expired at time t.
Expired(tbl, t) == {e \in tbl : isExpired(e[2], t)}

\* After a sweep no expired session is left in the session table or in the
\* per-password index, and every session that was not expired is still
\* stored.
SweepRemovesExpired ==
    last'.op = "cleanup"
    => /\ sessions' = sessions \ Expired(sessions, now)
       /\ \A p \in Strings : \A i \in 1..Len(userSessions'[p]) :
             MapHas(sessions', userSessions'[p][i])
       /\ \A e \in sessions' :
             \E i \in 1..Len(userSessions'[e[2].password]) :
                userSessions'[e[2].password][i] = e[1]

\* The owner of every session that a sweep destroys, if its transport is
\* open, is sent session_expired.
SweepNotifies ==
    last'.op = "cleanup"
    => \A e \in Expired(sessions, now) : \A c \in clients :
          (c[2].sessionId = e[1] /\ wsState[c[1]] = "open")
          => FramesTo(out', c[1], "session_expired") # {}

\* C30: each run of the periodic sweep destroys exactly the expired sessions,
\* in the session table and the per-password index, and sends session_expired
\* to the owner of each.
C30_SweepDestroysAndNotifies == [][SweepRemovesExpired /\ SweepNotifies]_vars

\* The removal half of C30 alone.
C30_SweepRemovesExpired == [][SweepRemovesExpired]_vars

\* C31: the replies to get_security_log, get_trusted_devices,
\* get_connected_users and get_sessions hold only entries of the caller's
\* password: no log entry whose event is another password, devices stored
\* with its hash, sessions of controller records under it, sessions created
\* for it.
C31_RepliesOwnEntries ==
    (last.res = "replied" /\ out # <<>>)
    => LET reply == out[Len(out)]
       IN /\ last.op = "get_security_log"
             => \A e \in reply.users \cap Strings : e = last.pw
          /\ last.op = "get_trusted_devices"
             => \A d \in reply.users :
                   MapGet(trustedDevices, d).passwordHash = hashPassword(last.pw)
          /\ last.op = "get_connected_users"
             => \A sid \in reply.users :
                   \E c \in clients : c[2].sessionId = sid /\ c[2].password = last.pw
          /\ last.op = "get_sessions"
             => \A id \in reply.users : MapGet(sessions, id).password = last.pw


\* The message that was just handled failed validation: its password is
\* missing or shorter than four characters, or it is not JSON or of no known
\* type.
BadPassword(l) ==
    /\ l.op \in {"register_computer", "connect_to_computer"}
    /\ (l.pw = Missing \/ Len(l.pw) < 4)
Undecodable(l) == l.op \in {"invalid_message", "unknown_type"}
ErrorReply(l, o) == Len(o) = 1 /\ o[1].to = l.ws /\ o[1].type = "error"

\* C32 as stated: a message that fails validation (malformed JSON, unknown
\* type, register_computer or connect_to_computer with a missing or short
\* password) is answered with an error frame on the sender's transport, leaves
\* the connection open and changes neither the host registry, the controller
\* map nor the session table.
C32_InvalidAnswered ==
    [][(BadPassword(last') \/ Undecodable(last'))
          => /\ ErrorReply(last', out')
             /\ UNCHANGED <<wsState, computers, clients, sessions, userSessions>>]_vars

\* C32 amended: register_computer / connect_to_computer with a missing or
\* short password is answered with an error frame on the sender's transport;
\* malformed JSON and unknown types are dropped without a reply; in every one
\* of these cases the connection stays open and the host registry, the
\* controller map and the session table are unchanged.
C32_InvalidRejected ==
    [][ /\ BadPassword(last') => ErrorReply(last', out')
        /\ Undecodable(last') => out' = <<>>
        /\ (BadPassword(last') \/ Undecodable(last'))
              => UNCHANGED <<wsState, computers, clients, sessions, userSessions>>]_vars

\* A transport has just been refused a connect_to_computer with a short
\* password, by an error frame, while a Host is registered; the transport is
\* still open.
C32_Witness ==
    /\ BadPassword(last) /\ last.op = "connect_to_computer" /\ last.pw = ShortPw
    /\ ErrorReply(last, out)
    /\ wsState[last.ws] = "open"
    /\ computers # {}


\* The count recorded for p, 0 without an entry.
CountOf(fa, p) == IF MapHas(fa, p) THEN MapGet(fa, p).count ELSE 0
Refused(res) == res \in {"invalid", "not_found"}
Admitted(res) == res \in {"ok", "threw"}

\* C33 as stated: checkLockout(pw) returns locked exactly when the recorded
\* count is at least maxFailedAttempts and the last attempt is less than
\* lockoutDuration old; in every other case the entry for pw is absent when
\* it returns, also an entry below the maximum: an admitted connect leaves
\* no entry and a refused one leaves the entry of a first failure.
C33_CheckLockoutClears ==
    [][\A ws \in Transports, p \in Fields :
         Stepped("connect_to_computer", ws, p)
         => /\ last'.res = "locked" <=> Locked(p)
            /\ Admitted(last'.res) => ~MapHas(failedAttempts', p)
            /\ Refused(last'.res) => CountOf(failedAttempts', p) = 1 ]_vars

\* C33 amended: checkLockout(pw) returns locked exactly when the recorded
\* count is at least maxFailedAttempts and the last attempt is less than
\* lockoutDuration old; an entry that reached the maximum is deleted once the
\* window has elapsed, an entry below the maximum is left as it is: an
\* admitted connect leaves it unchanged and a refused one adds one to it.
C33_CheckLockoutKeeps ==
    [][\A ws \in Transports, p \in Fields :
         Stepped("connect_to_computer", ws, p)
         => /\ last'.res = "locked" <=> Locked(p)
            /\ last'.res = "locked" => failedAttempts' = failedAttempts
            /\ (~Locked(p) /\ CountOf(failedAttempts, p) >= maxFailedAttempts)
               => /\ Admitted(last'.res) => ~MapHas(failedAttempts', p)
                  /\ Refused(last'.res) => CountOf(failedAttempts', p) = 1
            /\ CountOf(failedAttempts, p) < maxFailedAttempts
               => /\ Admitted(last'.res) => failedAttempts' = failedAttempts
                  /\ Refused(last'.res)
                     => CountOf(failedAttempts', p) = CountOf(failedAttempts, p) + 1 ]_vars

\* A connect has just been admitted for a password that has failures below
\* the maximum on record, and the entry is still there.
C33_Witness ==
    /\ last.op = "connect_to_computer" /\ last.res = "ok"
    /\ MapHas(failedAttempts, last.pw)
    /\ MapGet(failedAttempts, last.pw).count < maxFailedAttempts


RECURSIVE LastReceived(_, _, _)
LastReceived(rcv, transferId, i) ==
    IF i > MaxIndex + 1 THEN <<>>
    ELSE (IF MapHas(rcv, <<transferId, i>>)
          THEN fromBase64(MapGet(rcv, <<transferId, i>>)) ELSE <<>>)
         \o LastReceived(rcv, transferId, i + 1)

\* C35: chunk assembly is order-independent and last-write-wins: the file
\* that a file_upload_complete forwards is the base64 text of the
\* concatenation, in ascending chunk index, of the last data received for
\* each index of the transfer, whatever the order of the file_chunk messages.
C35_LastWriteWins ==
    ( /\ last.op = "file_upload_complete" /\ last.res = "ok"
      /\ Len(out) = 2 )
    => /\ out[1].type = "file_command" /\ out[1].tid = last.req
       /\ out[1].data = toBase64(LastReceived(received, last.req, 0))

\* The Host has been sent a file of three bytes of a transfer that received
\* four: index 0 was written twice and the second write is the one delivered.
C35_Witness ==
    /\ last.op = "file_upload_complete" /\ last.res = "ok"
    /\ Len(out) = 2 /\ out[1].type = "file_command"
    /\ out[1].data = toBase64(<<1, 255, 77>>)
    /\ MapGet(activeTransfers, last.req).receivedSize = 4
    /\ MapGet(received, <<last.req, 0>>) = toBase64(<<1, 255>>)


\* What validateTrustedDevice finds for the device d and the password p.
Unknown(d)    == ~MapHas(trustedDevices, d)
Lapsed(d)     == MapHas(trustedDevices, d)
                 /\ now - MapGet(trustedDevices, d).createdAt > trustedDeviceExpiry
Rotated(d, p) == MapHas(trustedDevices, d) /\ ~Lapsed(d)
                 /\ MapGet(trustedDevices, d).passwordHash # hashPassword(p)
FailedWith(ws, o, reason) == o = <<Frame(ws, "auto_login_failed", reason)>>

\* C36: auto_login{deviceId, password} attaches the sender only if deviceId
\* is a registered trusted device whose trust has not expired and whose
\* stored hash is the hash of the presented password; otherwise the reply is
\* auto_login_failed with `Device not found`, `Device trust expired` (the
\* entry being deleted) or `Password changed` respectively, and no session or
\* controller record is created.
C36_AutoLoginValidates ==
    [][\A ws \in Transports :
          (last'.op = "auto_login" /\ last'.ws = ws)
          => LET d == last'.arg[1]
                 p == last'.pw
             IN /\ FramesTo(out', ws, "connected") # {}
                   => ~Unknown(d) /\ ~Lapsed(d) /\ ~Rotated(d, p)
                /\ Unknown(d) => FailedWith(ws, out', "Device not found")
                /\ Lapsed(d) => /\ FailedWith(ws, out', "Device trust expired")
                                /\ ~MapHas(trustedDevices', d)
                /\ Rotated(d, p) => FailedWith(ws, out', "Password changed")
                /\ (Unknown(d) \/ Lapsed(d) \/ Rotated(d, p))
                   => UNCHANGED <<clients, sessions, userSessions>> ]_vars


\* The controller records that name the session sid.
NamedBy(sid) == {c \in clients : c[2].sessionId = sid}

\* C37: sessions and attached controllers are in one-to-one correspondence:
\* every member of a Host's controller set has a controller record whose
\* sessionId names a stored session, and every stored session is named by
\* exactly one controller record (so a session that expiry, eviction or a
\* kick destroys takes its controller with it, and a connect_to_computer that
\* is sent again on an attached transport leaves no orphan session).
C37_SessionsMatchControllers ==
    /\ \A e \in computers : \A c \in e[2].connectedClients :
          /\ MapHas(clients, c)
          /\ MapHas(sessions, MapGet(clients, c).sessionId)
    /\ \A s \in sessions : Cardinality(NamedBy(s[1])) = 1


\* The messages that a Host sends for its controllers.
HostOps == {"screenshot", "result", "file_change_event", "file_download_response",
            "file_operation_result", "browse_result_relay", "watcher_result",
            "watched_folders"}

\* C38: a host message is relayed to a password's controllers only when the
\* sending transport is the one recorded as the Host for that password: a
\* transport that registered and was replaced by a later register_computer for
\* the same password pushes nothing to the controllers.
C38_OnlyRecordedHostPushes ==
    [][(last'.op \in HostOps /\ out' # <<>>)
          => /\ MapHas(computers, last'.pw)
             /\ MapGet(computers, last'.pw).ws = last'.ws ]_vars


\* The stored transfer transferId is changed or removed by the step.
Affected(transferId) ==
    /\ MapHas(activeTransfers, transferId)
    /\ \/ ~MapHas(activeTransfers', transferId)
       \/ MapGet(activeTransfers', transferId) # MapGet(activeTransfers, transferId)

Delivered(l, o, transferId) ==
    /\ l.op = "file_upload_complete" /\ l.req = transferId
    /\ \E i \in 1..Len(o) : o[i].type = "file_command" /\ o[i].tid = transferId

====
